---- MODULE Spec2Model ----
(***************************************************************************)
(* Authentication and session subsystem of taskPages                       *)
(* (backend/auth/oauth_handler.py, backend/app_secure.py,                  *)
(* backend/config/security.py).                                            *)
(*                                                                         *)
(* Time passes in steps of five minutes or of twelve hours.  A store       *)
(* record carries the time it still has to live (its Redis TTL): bridge    *)
(* tokens in units of five minutes, Sessions, session indexes and API      *)
(* tokens in units of twelve hours.  The issue timestamp of a pending      *)
(* OAuth flow is kept as its age in units of five minutes, capped one      *)
(* unit past the ten-minute limit, which is all the code compares.         *)
(* Random values (secrets.token_urlsafe) are fresh numbers taken from      *)
(* counters; 0 stands for None.                                            *)
(***************************************************************************)
EXTENDS Integers, FiniteSets, Sequences, TLC

\* ------------------------------------------------------------------ bounds
MaxLogins == 1          \* login() calls (state/nonce pairs issued)
ConcLogins == MaxLogins + 1     \* login() calls when requests interleave
MaxSessions == ConcLogins       \* a Session takes a login()
MaxTokens == 2 * ConcLogins     \* a bridge token per Session, an API token per bridge token

\* --------------------------------------------------------------- constants
OAuthTimeout == 2       \* timedelta(minutes=10), in units of five minutes
BridgeTTL == 1          \* setex(token_key, 300, ...), in units of five minutes
SessionLifetime == 2    \* PERMANENT_SESSION_LIFETIME = 24 h, in units of twelve hours

Browsers == {"b1", "b2"}
NoBrowser == "none"     \* a request that carries no cookie

GOOGLE_WORKSPACE_DOMAIN == "oodahost.com"
GOOGLE_CLIENT_ID == "client-id"
OAUTH_REQUIRE_WORKSPACE_DOMAIN == TRUE
GoogleIssuers == {"accounts.google.com", "https://accounts.google.com"}

\* An email is <<local part, domain>>.
NoEmail == <<"", "">>
U1 == <<"u1", GOOGLE_WORKSPACE_DOMAIN>>
U2 == <<"u2", GOOGLE_WORKSPACE_DOMAIN>>
Users == {U1, U2}

\* email.endswith('@' + domain)
EndsWithAtDomain(email, domain) == email[2] = domain

VARIABLES
    redisOn,      \* redis_client is not None (fixed at start-up)
    fs,           \* the Flask session of each browser
    redis,        \* the shared store: sessions, user_sessions, auth_token, api_token
    nextLogin,    \* next fresh state/nonce value
    nextSid,      \* next fresh session id
    nextTok,      \* next fresh bridge/API token
    usedStates,   \* history: state values that passed verify_csrf_token
    redeemed,     \* history: bridge tokens redeemed by exchange-token
    loggedOut,    \* history: session ids destroyed by logout
    inflight,     \* requests between loading and saving their Flask session
    storeUp,      \* the store answers commands
    limiter,      \* the RateLimiter: its client and its rate_limit:<key> counters
    http          \* the request that is passing through the middleware

vars == <<redisOn, fs, redis, nextLogin, nextSid, nextTok,
          usedStates, redeemed, loggedOut, inflight, storeUp, limiter, http>>

\* ------------------------------------------------------------ store helpers
Put(f, k, v) == [x \in DOMAIN f \cup {k} |-> IF x = k THEN v ELSE f[x]]
Del(f, K) == [x \in DOMAIN f \ K |-> f[x]]

EmptyRedis == [sessions |-> <<>>, user_sessions |-> <<>>,
               auth_token |-> <<>>, api_token |-> <<>>]

\* URLs are sequences of pieces; str.startswith is the prefix relation on them
NoUrl == <<>>
FRONTEND_URL == <<"https://app.example.com">>
BACKEND_URL == <<"https://api.example.com">>
StartsWith(u, p) == Len(u) >= Len(p) /\ SubSeq(u, 1, Len(p)) = p

\* scheme and host of an absolute URL: the pieces before the first "/"
RECURSIVE Origin(_)
Origin(u) == IF u = NoUrl \/ Head(u) = "/" THEN NoUrl ELSE <<Head(u)>> \o Origin(Tail(u))

\* a frontend page, a page of a host whose name begins with the frontend's
\* host name, a page of another site, and the guarded backend endpoint
FrontPage == FRONTEND_URL \o <<"/", "tasks">>
LookAlikePage == FRONTEND_URL \o <<".evil.net", "/", "landing">>
ForeignPage == <<"https://evil.net", "/", "landing">>
GuardedUrl == BACKEND_URL \o <<"/", "auth/refresh">>
Referrers == {NoUrl, FrontPage, LookAlikePage, ForeignPage}

\* session.clear(): the Flask session with no keys
EmptySession ==
    [oauth_state |-> 0, oauth_timestamp |-> -1, oauth_nonce |-> 0,
     session_id |-> 0, user_email |-> NoEmail,
     user_data |-> NoEmail, auth_tokens |-> {}, old_tokens |-> {},
     next_url |-> NoUrl]

\* session.pop(f'auth_token_{token}'): the entry goes with its created_at.
\* auth_tokens holds the tokens stored in the cookie session, old_tokens those
\* of them whose created_at lies five minutes or more in the past
pop_auth_token(s, token) ==
    [s EXCEPT !.auth_tokens = @ \ {token}, !.old_tokens = @ \ {token}]

\* SMEMBERS user_sessions:<email>
smembers(R, email) ==
    IF email \in DOMAIN R.user_sessions THEN R.user_sessions[email].members ELSE {}

\* SADD user_sessions:<email> sid; EXPIRE user_sessions:<email> expiry
sadd_expire(R, email, sid, expiry) ==
    [R EXCEPT !.user_sessions =
        Put(@, email, [members |-> smembers(R, email) \cup {sid}, ttl |-> expiry])]

\* SREM user_sessions:<email> sid (a set left empty is removed by the store)
srem(R, email, sid) ==
    IF email \notin DOMAIN R.user_sessions THEN R
    ELSE IF R.user_sessions[email].members \ {sid} = {}
         THEN [R EXCEPT !.user_sessions = Del(@, {email})]
         ELSE [R EXCEPT !.user_sessions[email].members = @ \ {sid}]

\* ---------------------------------------------------------------- requests
NoIdInfo ==
    [sig |-> FALSE, iss |-> "", aud |-> "", hd |-> "", email |-> NoEmail,
     email_verified |-> FALSE, nonce |-> 0]

GoodToken(e, n) ==
    [sig |-> TRUE, iss |-> "https://accounts.google.com", aud |-> GOOGLE_CLIENT_ID,
     hd |-> GOOGLE_WORKSPACE_DOMAIN, email |-> e, email_verified |-> TRUE, nonce |-> n]

Nonces == 0..ConcLogins

\* Identity tokens the provider may hand back: well-formed ones for both
\* users and every nonce, and ones that break a single Verifier check.
IdTokens ==
    {GoodToken(e, n) : e \in Users, n \in Nonces \ {0}}
    \cup {GoodToken(U1, 0),
          [GoodToken(U1, 1) EXCEPT !.sig = FALSE],
          [GoodToken(U1, 1) EXCEPT !.iss = "https://evil.example"],
          [GoodToken(U1, 1) EXCEPT !.aud = "other-client"],
          [GoodToken(U1, 1) EXCEPT !.hd = "other.com"],
          [GoodToken(<<"u1", "other.com">>, 1) EXCEPT !.hd = GOOGLE_WORKSPACE_DOMAIN],
          [GoodToken(U1, 1) EXCEPT !.email_verified = FALSE]}

NoReq == [error |-> FALSE, state |-> 0, code |-> FALSE, exch |-> "none",
          tok |-> NoIdInfo]

\* GET /auth/callback?error=..&state=..&code=.. together with what the
\* provider answers to the code exchange.
CallbackReqs ==
    {[NoReq EXCEPT !.error = TRUE, !.state = s, !.code = c] :
              s \in {0, 1}, c \in BOOLEAN}
    \cup {[NoReq EXCEPT !.state = s] : s \in 0..ConcLogins}
    \cup {[NoReq EXCEPT !.state = s, !.code = TRUE, !.exch = x] :
              s \in 0..ConcLogins, x \in {"fail", "no_id_token"}}
    \cup {[NoReq EXCEPT !.state = s, !.code = TRUE, !.exch = "ok", !.tok = t] :
              s \in 0..ConcLogins, t \in IdTokens}

\* The callbacks the browsers actually send in the model: one request for
\* every way a callback can end, for every state value, user and nonce.
FlowReqs ==
    {[NoReq EXCEPT !.error = TRUE, !.state = 1, !.code = TRUE]}
    \cup {[NoReq EXCEPT !.state = s, !.code = TRUE, !.exch = "ok", !.tok = GoodToken(e, n)] :
              s \in 0..ConcLogins, e \in Users, n \in Nonces \ {0}}
    \cup {[NoReq EXCEPT !.state = s] : s \in 1..ConcLogins}
    \cup {[NoReq EXCEPT !.state = s, !.code = TRUE, !.exch = x] :
              s \in 1..ConcLogins, x \in {"fail", "no_id_token"}}
    \cup {[NoReq EXCEPT !.state = s, !.code = TRUE, !.exch = "ok",
                        !.tok = [GoodToken(U1, s) EXCEPT !.hd = "other.com"]] :
              s \in 1..ConcLogins}

\* ------------------------------------------------------- oauth_handler.py
\* verify_csrf_token reading the stored state with session.get, not session.pop
verify_csrf_token_no_pop(s, token) ==
    [ok |-> s.oauth_state # 0 /\ token # 0 /\ s.oauth_state = token,
     sess |-> s]

\* verify_csrf_token that accepts whatever is presented
verify_csrf_token_accept_all(s, token) ==
    [ok |-> TRUE, sess |-> [s EXCEPT !.oauth_state = 0]]

\* verify_csrf_token that lets a callback pass when the session stores no state
verify_csrf_token_accept_missing(s, token) ==
    [ok |-> token # 0 /\ (s.oauth_state = 0 \/ s.oauth_state = token),
     sess |-> [s EXCEPT !.oauth_state = 0]]

\* verify_csrf_token that removes the stored state only when it matches
verify_csrf_token_pop_on_match(s, token) ==
    [ok |-> s.oauth_state # 0 /\ token # 0 /\ s.oauth_state = token,
     sess |-> IF s.oauth_state = token THEN [s EXCEPT !.oauth_state = 0] ELSE s]

verify_csrf_token(s, token) ==
    [ok |-> s.oauth_state # 0 /\ token # 0 /\ s.oauth_state = token,
     sess |-> [s EXCEPT !.oauth_state = 0]]

\* verify_google_token without the comparison of the hd claim
verify_google_token_no_hd(t) ==
    IF ~t.sig THEN NoIdInfo
    ELSE IF t.iss \notin GoogleIssuers THEN NoIdInfo
    ELSE IF t.aud # GOOGLE_CLIENT_ID THEN NoIdInfo
    ELSE IF OAUTH_REQUIRE_WORKSPACE_DOMAIN
            /\ ~EndsWithAtDomain(t.email, GOOGLE_WORKSPACE_DOMAIN) THEN NoIdInfo
    ELSE IF ~t.email_verified THEN NoIdInfo
    ELSE t

verify_google_token(t) ==
    IF ~t.sig THEN NoIdInfo
    ELSE IF t.iss \notin GoogleIssuers THEN NoIdInfo
    ELSE IF t.aud # GOOGLE_CLIENT_ID THEN NoIdInfo
    ELSE IF OAUTH_REQUIRE_WORKSPACE_DOMAIN /\ t.hd # GOOGLE_WORKSPACE_DOMAIN THEN NoIdInfo
    ELSE IF OAUTH_REQUIRE_WORKSPACE_DOMAIN
            /\ ~EndsWithAtDomain(t.email, GOOGLE_WORKSPACE_DOMAIN) THEN NoIdInfo
    ELSE IF ~t.email_verified THEN NoIdInfo
    ELSE t

\* create_user_session that stores the record but never writes
\* session['session_id'] into the browser's session
create_user_session_no_cookie(R, s, user_info, session_id) ==
    [R |-> IF redisOn
           THEN sadd_expire(
                    [R EXCEPT !.sessions =
                        Put(@, session_id, [email |-> user_info.email, ttl |-> SessionLifetime])],
                    user_info.email, session_id, SessionLifetime)
           ELSE R,
     sess |-> [s EXCEPT !.user_email = user_info.email,
                        !.user_data = IF redisOn THEN @ ELSE user_info.email]]

\* create_user_session that leaves the store writes for later: the cookie
\* gets its session_id but the pipeline has not run
create_user_session_deferred(R, s, user_info, session_id) ==
    [R |-> R,
     sess |-> [s EXCEPT !.session_id = session_id,
                        !.user_email = user_info.email,
                        !.user_data = IF redisOn THEN @ ELSE user_info.email]]

create_user_session(R, s, user_info, session_id) ==
    [R |-> IF redisOn
           THEN sadd_expire(
                    [R EXCEPT !.sessions =
                        Put(@, session_id, [email |-> user_info.email, ttl |-> SessionLifetime])],
                    user_info.email, session_id, SessionLifetime)
           ELSE R,
     sess |-> [s EXCEPT !.session_id = session_id,
                        !.user_email = user_info.email,
                        !.user_data = IF redisOn THEN @ ELSE user_info.email]]

get_user_session(R, s) ==
    IF s.session_id = 0 THEN [R |-> R, sess |-> s, user |-> NoEmail]
    ELSE IF redisOn
    THEN IF s.session_id \notin DOMAIN R.sessions
         THEN [R |-> R, sess |-> EmptySession, user |-> NoEmail]
         ELSE [R |-> [R EXCEPT !.sessions[s.session_id].ttl = SessionLifetime],
               sess |-> s, user |-> R.sessions[s.session_id].email]
    ELSE [R |-> R, sess |-> s, user |-> s.user_data]

\* the ten-minute check with >= in place of >
callback_timed_out_at_limit(oauth_timestamp) ==
    oauth_timestamp # -1 /\ oauth_timestamp >= OAuthTimeout

\* "if oauth_timestamp: ... time_diff > timedelta(minutes=10)"
callback_timed_out(oauth_timestamp) ==
    oauth_timestamp # -1 /\ oauth_timestamp > OAuthTimeout

\* login that leaves a pending state in place
login_keep_pending(s, v) ==
    IF s.oauth_state # 0 THEN s
    ELSE [s EXCEPT !.oauth_state = v, !.oauth_timestamp = 0, !.oauth_nonce = v]

\* login that stores the state and the nonce but no oauth_timestamp
login_no_timestamp(s, v) ==
    [s EXCEPT !.oauth_state = v, !.oauth_nonce = v]

login(s, v) ==
    [s EXCEPT !.oauth_state = v, !.oauth_timestamp = 0, !.oauth_nonce = v]

\* login(): the parameters of the provider URL the browser is redirected to
oauth_params(state, nonce) ==
    [response_type |-> "code", scope |-> "openid email profile",
     state |-> state, nonce |-> nonce]

\* login(): the response, for the fresh value v
login_response(v) == [status |-> 302, params |-> oauth_params(v, v)]

\* login(): the Referer header is remembered when it starts with FRONTEND_URL
login_referrer(s, referrer) ==
    IF referrer # NoUrl /\ StartsWith(referrer, FRONTEND_URL)
    THEN [s EXCEPT !.next_url = referrer] ELSE s

\* login() of a request that carries the Referer header referrer
login_from(s, v, referrer) == login(login_referrer(s, referrer), v)

\* callback(): the URL the browser is sent to, with the bridge token attached
redirect_url(next_url) ==
    IF next_url # NoUrl /\ (StartsWith(next_url, <<"/">>) \/ StartsWith(next_url, FRONTEND_URL))
    THEN next_url ELSE FRONTEND_URL

\* the code exchange of callback(): one requests.post with timeout=10 inside
\* try/except RequestException; "fail" stands for a non-2xx answer
\* (raise_for_status), a network error and a timeout alike
exchange_code_retry(req) ==
    [posts |-> IF req.exch = "fail" THEN 2 ELSE 1, failed |-> req.exch = "fail"]

exchange_code(req) ==
    [posts |-> 1, failed |-> req.exch = "fail"]

\* callback that looks at the error parameter only after the CSRF check
callback_error_after_csrf(R, s, req, session_id, auth_token) ==
    LET csrf == verify_csrf_token(s, req.state)
        s1 == csrf.sess
        s2 == [s1 EXCEPT !.oauth_timestamp = -1]
        user_info == verify_google_token(req.tok)
        s3 == [s2 EXCEPT !.oauth_nonce = 0]
        created == create_user_session(R, s3, user_info, session_id)
        Out(R0, s0, status, reason) ==
            [R |-> R0, sess |-> s0, status |-> status, reason |-> reason]
    IN  IF ~csrf.ok THEN Out(R, s1, 403, "csrf")
        ELSE IF req.error THEN Out(R, s1, 400, "provider_error")
        ELSE IF callback_timed_out(s1.oauth_timestamp) THEN Out(R, s2, 403, "timeout")
        ELSE IF ~req.code THEN Out(R, s2, 400, "no_code")
        ELSE IF exchange_code(req).failed THEN Out(R, s2, 500, "exchange_failed")
        ELSE IF req.exch = "no_id_token" THEN Out(R, s2, 400, "no_id_token")
        ELSE IF user_info = NoIdInfo THEN Out(R, s2, 403, "invalid_id_token")
        ELSE IF s2.oauth_nonce = 0 \/ user_info.nonce # s2.oauth_nonce
             THEN Out(R, s3, 403, "nonce")
        ELSE IF redisOn
             THEN Out([created.R EXCEPT !.auth_token =
                          Put(@, auth_token,
                              [session_id |-> session_id, email |-> user_info.email,
                               ttl |-> BridgeTTL])],
                      [created.sess EXCEPT !.next_url = NoUrl], 302, "ok")
             ELSE Out(created.R,
                      [created.sess EXCEPT !.auth_tokens = @ \cup {auth_token},
                                           !.next_url = NoUrl],
                      302, "ok")

callback(R, s, req, session_id, auth_token) ==
    LET csrf == verify_csrf_token(s, req.state)
        s1 == csrf.sess
        s2 == [s1 EXCEPT !.oauth_timestamp = -1]
        user_info == verify_google_token(req.tok)
        s3 == [s2 EXCEPT !.oauth_nonce = 0]
        created == create_user_session(R, s3, user_info, session_id)
        Out(R0, s0, status, reason) ==
            [R |-> R0, sess |-> s0, status |-> status, reason |-> reason]
    IN  IF req.error THEN Out(R, s, 400, "provider_error")
        ELSE IF ~csrf.ok THEN Out(R, s1, 403, "csrf")
        ELSE IF callback_timed_out(s1.oauth_timestamp) THEN Out(R, s2, 403, "timeout")
        ELSE IF ~req.code THEN Out(R, s2, 400, "no_code")
        ELSE IF exchange_code(req).failed THEN Out(R, s2, 500, "exchange_failed")
        ELSE IF req.exch = "no_id_token" THEN Out(R, s2, 400, "no_id_token")
        ELSE IF user_info = NoIdInfo THEN Out(R, s2, 403, "invalid_id_token")
        ELSE IF s2.oauth_nonce = 0 \/ user_info.nonce # s2.oauth_nonce
             THEN Out(R, s3, 403, "nonce")
        ELSE IF redisOn
             THEN Out([created.R EXCEPT !.auth_token =
                          Put(@, auth_token,
                              [session_id |-> session_id, email |-> user_info.email,
                               ttl |-> BridgeTTL])],
                      [created.sess EXCEPT !.next_url = NoUrl], 302, "ok")
             ELSE Out(created.R,
                      [created.sess EXCEPT !.auth_tokens = @ \cup {auth_token},
                                           !.next_url = NoUrl],
                      302, "ok")

logout(R, s) ==
    LET R1 == IF s.session_id # 0 /\ redisOn
              THEN [R EXCEPT !.sessions = Del(@, {s.session_id})]
              ELSE R
        R2 == IF s.session_id # 0 /\ redisOn /\ s.user_email # NoEmail
              THEN srem(R1, s.user_email, s.session_id)
              ELSE R1
    IN  [R |-> R2, sess |-> EmptySession, status |-> 200]

\* the store read of logout_all, behind the login_required guard
logout_all_read(R, s) ==
    LET g == get_user_session(R, s)
    IN  [R |-> g.R, sess |-> g.sess, user |-> g.user,
         all_sessions |-> IF redisOn /\ g.user # NoEmail
                          THEN smembers(g.R, g.user) ELSE {}]

\* the pipeline of logout_all and session.clear()
logout_all_write(R, user_email, all_sessions) ==
    IF redisOn
    THEN [R EXCEPT !.sessions = Del(@, all_sessions),
                   !.user_sessions = Del(@, {user_email})]
    ELSE R

logout_all(R, s) ==
    LET rd == logout_all_read(R, s)
    IN  IF rd.user = NoEmail
        THEN [R |-> rd.R, sess |-> rd.sess, status |-> 401, user |-> NoEmail]
        ELSE [R |-> logout_all_write(rd.R, rd.user, rd.all_sessions),
              sess |-> EmptySession, status |-> 200, user |-> rd.user]

validate_auth_token(R, s, token) ==
    IF token = 0 THEN NoEmail
    ELSE IF redisOn
    THEN IF token \in DOMAIN R.auth_token
            /\ R.auth_token[token].session_id \in DOMAIN R.sessions
         THEN R.sessions[R.auth_token[token].session_id].email
         ELSE NoEmail
    ELSE IF token \in s.auth_tokens THEN s.user_data ELSE NoEmail

\* validate_api_token answering from the token record without looking the
\* Session up
validate_api_token_stale(R, token) ==
    IF token = 0 \/ ~redisOn THEN [R |-> R, user |-> NoEmail]
    ELSE IF token \notin DOMAIN R.api_token THEN [R |-> R, user |-> NoEmail]
    ELSE [R |-> [R EXCEPT !.api_token[token].ttl = SessionLifetime],
          user |-> R.api_token[token].email]

\* validate_api_token without the EXPIRE of the API token key
validate_api_token_no_refresh(R, token) ==
    IF token = 0 \/ ~redisOn THEN [R |-> R, user |-> NoEmail]
    ELSE IF token \notin DOMAIN R.api_token THEN [R |-> R, user |-> NoEmail]
    ELSE IF R.api_token[token].session_id \in DOMAIN R.sessions
         THEN [R |-> R, user |-> R.sessions[R.api_token[token].session_id].email]
         ELSE [R |-> R, user |-> NoEmail]

validate_api_token(R, token) ==
    IF token = 0 \/ ~redisOn THEN [R |-> R, user |-> NoEmail]
    ELSE IF token \notin DOMAIN R.api_token THEN [R |-> R, user |-> NoEmail]
    ELSE IF R.api_token[token].session_id \in DOMAIN R.sessions
         THEN [R |-> [R EXCEPT !.api_token[token].ttl = SessionLifetime],
               user |-> R.sessions[R.api_token[token].session_id].email]
         ELSE [R |-> R, user |-> NoEmail]

\* GET /auth/status; bearer = 0 when there is no Authorization header
auth_status(R, s, bearer) ==
    LET api == validate_api_token(R, bearer)
        tmp == validate_auth_token(R, s, bearer)
        g == get_user_session(R, s)
    IN  IF bearer # 0 /\ api.user # NoEmail
        THEN [R |-> api.R, sess |-> s, user |-> api.user]
        ELSE IF bearer # 0 /\ tmp # NoEmail
        THEN [R |-> R, sess |-> s, user |-> tmp]
        ELSE g

\* exchange_token that leaves the bridge record in place after minting
exchange_token_keep_bridge(R, s, temp_token, api_token) ==
    LET Out(R0, s0, status, email, token) ==
            [R |-> R0, sess |-> s0, status |-> status, email |-> email, token |-> token]
    IN  IF temp_token = 0 THEN Out(R, s, 400, NoEmail, 0)
        ELSE IF redisOn
        THEN IF temp_token \notin DOMAIN R.auth_token THEN Out(R, s, 401, NoEmail, 0)
             ELSE IF R.auth_token[temp_token].session_id \notin DOMAIN R.sessions
             THEN Out(R, s, 401, NoEmail, 0)
             ELSE LET session_id == R.auth_token[temp_token].session_id
                      email == R.sessions[session_id].email
                  IN  Out([R EXCEPT
                              !.api_token = Put(@, api_token,
                                  [session_id |-> session_id, email |-> email,
                                   ttl |-> SessionLifetime])],
                          s, 200, email, api_token)
        ELSE IF temp_token \notin s.auth_tokens THEN Out(R, s, 401, NoEmail, 0)
             ELSE IF s.user_data = NoEmail
             THEN Out(R, pop_auth_token(s, temp_token), 401, NoEmail, 0)
             ELSE Out(R, s, 200, s.user_data, temp_token)

exchange_token(R, s, temp_token, api_token) ==
    LET Out(R0, s0, status, email, token) ==
            [R |-> R0, sess |-> s0, status |-> status, email |-> email, token |-> token]
    IN  IF temp_token = 0 THEN Out(R, s, 400, NoEmail, 0)
        ELSE IF redisOn
        THEN IF temp_token \notin DOMAIN R.auth_token THEN Out(R, s, 401, NoEmail, 0)
             ELSE IF R.auth_token[temp_token].session_id \notin DOMAIN R.sessions
             THEN Out(R, s, 401, NoEmail, 0)
             ELSE LET session_id == R.auth_token[temp_token].session_id
                      email == R.sessions[session_id].email
                  IN  Out([R EXCEPT
                              !.api_token = Put(@, api_token,
                                  [session_id |-> session_id, email |-> email,
                                   ttl |-> SessionLifetime]),
                              !.auth_token = Del(@, {temp_token})],
                          s, 200, email, api_token)
        ELSE IF temp_token \notin s.auth_tokens THEN Out(R, s, 401, NoEmail, 0)
             ELSE IF s.user_data = NoEmail
             THEN Out(R, pop_auth_token(s, temp_token), 401, NoEmail, 0)
             ELSE Out(R, pop_auth_token(s, temp_token), 200,
                      s.user_data, temp_token)

\* ------------------------------------------------------------------- time
\* One unit of time passes for the records of f: every TTL drops by one and
\* the records that reach zero are gone.
Expire(f) == [k \in {x \in DOMAIN f : f[x].ttl > 1} |-> [f[k] EXCEPT !.ttl = @ - 1]]

\* datetime.utcnow() - oauth_timestamp grows by five minutes
Age(s) ==
    IF s.oauth_timestamp = -1 \/ s.oauth_timestamp > OAuthTimeout
    THEN [s EXCEPT !.old_tokens = s.auth_tokens]
    ELSE [s EXCEPT !.oauth_timestamp = @ + 1, !.old_tokens = s.auth_tokens]

\* datetime.utcnow() - oauth_timestamp grows by twelve hours
AgeOut(s) ==
    IF s.oauth_timestamp = -1 THEN [s EXCEPT !.old_tokens = s.auth_tokens]
    ELSE [s EXCEPT !.oauth_timestamp = OAuthTimeout + 1, !.old_tokens = s.auth_tokens]

\* no request is passing through the middleware
NoHttp == [pc |-> "idle"]

\* ---------------------------------------------------------------- actions
Idle == [pc |-> "idle", b |-> NoBrowser, sess |-> EmptySession, req |-> NoReq,
         user |-> NoEmail, all_sessions |-> {}, token |-> 0, session_id |-> 0,
         status |-> 0]
Reqs == {"r1", "r2"}

Init ==
    /\ redisOn \in BOOLEAN
    /\ fs = [b \in Browsers |-> EmptySession]
    /\ redis = EmptyRedis
    /\ nextLogin = 1
    /\ nextSid = 1
    /\ nextTok = 1
    /\ usedStates = {}
    /\ redeemed = {}
    /\ loggedOut = {}
    /\ inflight = [r \in Reqs |-> Idle]
    /\ http = NoHttp
    /\ storeUp = TRUE
    /\ limiter = [redis |-> redisOn, counters |-> <<>>, admitted |-> <<>>]

\* GET /auth/login from browser b
LoginBody(b) ==
    /\ fs' = [fs EXCEPT ![b] = login(fs[b], nextLogin)]
    /\ nextLogin' = nextLogin + 1
    /\ UNCHANGED <<http, storeUp, limiter, redisOn, redis, nextSid, nextTok, usedStates, redeemed,
                   loggedOut, inflight>>

Login(b) == nextLogin <= MaxLogins /\ LoginBody(b)

\* callback() run on the Flask session s of browser b
CallbackBody(b, s, req) ==
    /\ LET c == callback(redis, s, req, nextSid, nextTok)
       IN  /\ redis' = c.R
           /\ fs' = [fs EXCEPT ![b] = c.sess]
           /\ nextSid' = IF c.reason = "ok" THEN nextSid + 1 ELSE nextSid
           /\ nextTok' = IF c.reason = "ok" THEN nextTok + 1 ELSE nextTok
           /\ usedStates' = IF c.reason \notin {"provider_error", "csrf"}
                            THEN usedStates \cup {req.state} ELSE usedStates
    /\ UNCHANGED <<http, storeUp, limiter, redisOn, nextLogin, redeemed, loggedOut>>

Callback(b, req) ==
    /\ CallbackBody(b, fs[b], req)
    /\ UNCHANGED inflight

\* GET /auth/status from browser b, or with no cookie when b = NoBrowser
Status(b, bearer) ==
    /\ LET st == auth_status(redis, IF b = NoBrowser THEN EmptySession ELSE fs[b], bearer)
       IN  /\ redis' = st.R
           /\ fs' = IF b = NoBrowser THEN fs ELSE [fs EXCEPT ![b] = st.sess]
    /\ UNCHANGED <<http, storeUp, limiter, redisOn, nextLogin, nextSid, nextTok, usedStates, redeemed,
                   loggedOut, inflight>>

ExchangeToken(b, temp_token) ==
    /\ LET x == exchange_token(redis, IF b = NoBrowser THEN EmptySession ELSE fs[b],
                               temp_token, nextTok)
       IN  /\ redis' = x.R
           /\ fs' = IF b = NoBrowser THEN fs ELSE [fs EXCEPT ![b] = x.sess]
           /\ nextTok' = IF x.status = 200 /\ redisOn THEN nextTok + 1 ELSE nextTok
           /\ redeemed' = IF x.status = 200 THEN redeemed \cup {temp_token} ELSE redeemed
    /\ UNCHANGED <<http, storeUp, limiter, redisOn, nextLogin, nextSid, usedStates, loggedOut, inflight>>

Logout(b) ==
    /\ LET l == logout(redis, fs[b])
       IN  /\ redis' = l.R
           /\ fs' = [fs EXCEPT ![b] = l.sess]
           /\ loggedOut' = IF fs[b].session_id # 0 /\ redisOn
                           THEN loggedOut \cup {fs[b].session_id} ELSE loggedOut
    /\ UNCHANGED <<http, storeUp, limiter, redisOn, nextLogin, nextSid, nextTok, usedStates, redeemed, inflight>>

LogoutAll(b) ==
    /\ LET l == logout_all(redis, fs[b])
       IN  /\ redis' = l.R
           /\ fs' = [fs EXCEPT ![b] = l.sess]
    /\ UNCHANGED <<http, storeUp, limiter, redisOn, nextLogin, nextSid, nextTok, usedStates, redeemed,
                   loggedOut, inflight>>

\* five minutes pass
Tick ==
    /\ redis' = [redis EXCEPT !.auth_token = Expire(@)]
    /\ fs' = [b \in Browsers |-> Age(fs[b])]
    /\ inflight' = [r \in Reqs |-> [inflight[r] EXCEPT !.sess = Age(@)]]
    /\ UNCHANGED <<http, storeUp, limiter, redisOn, nextLogin, nextSid, nextTok, usedStates, redeemed, loggedOut>>

\* twelve hours pass
LongTick ==
    /\ redis' = [sessions |-> Expire(redis.sessions),
                 user_sessions |-> Expire(redis.user_sessions),
                 auth_token |-> <<>>,
                 api_token |-> Expire(redis.api_token)]
    /\ fs' = [b \in Browsers |-> AgeOut(fs[b])]
    /\ inflight' = [r \in Reqs |-> [inflight[r] EXCEPT !.sess = AgeOut(@)]]
    /\ UNCHANGED <<http, storeUp, limiter, redisOn, nextLogin, nextSid, nextTok, usedStates, redeemed, loggedOut>>

Tokens == 0..MaxTokens

Next ==
    \/ \E b \in Browsers : Login(b)
    \/ \E b \in Browsers, req \in FlowReqs : Callback(b, req)
    \/ \E b \in Browsers \cup {NoBrowser}, t \in Tokens : Status(b, t)
    \/ \E b \in Browsers \cup {NoBrowser}, t \in Tokens : ExchangeToken(b, t)
    \/ \E b \in Browsers : Logout(b)
    \/ \E b \in Browsers : LogoutAll(b)
    \/ Tick
    \/ LongTick

Spec == Init /\ [][Next]_vars

\* ------------------------------------------------- interleaved requests
\* Flask loads the browser session when a request starts and saves it when the
\* response is made, so two requests of one browser each work on their own
\* copy; the store is shared.  No time passes while requests interleave.
ConcReqs ==
    { [NoReq EXCEPT !.state = n, !.code = TRUE, !.exch = "token",
                    !.tok = GoodToken(U1, n)] : n \in 1..ConcLogins }

InitConc == Init /\ redisOn

LoginConc(b) == nextLogin <= ConcLogins /\ LoginBody(b)

\* a callback request of browser b starts: its session is loaded
CallbackStart(r, b, req) ==
    /\ inflight[r].pc = "idle"
    /\ inflight' = [inflight EXCEPT ![r] = [Idle EXCEPT !.pc = "callback", !.b = b,
                                                        !.sess = fs[b], !.req = req]]
    /\ UNCHANGED <<http, storeUp, limiter, redisOn, fs, redis, nextLogin, nextSid, nextTok, usedStates,
                   redeemed, loggedOut>>

\* the callback runs on its copy, and the copy is saved
CallbackEnd(r) ==
    /\ inflight[r].pc = "callback"
    /\ CallbackBody(inflight[r].b, inflight[r].sess, inflight[r].req)
    /\ inflight' = [inflight EXCEPT ![r] = Idle]

\* logout_all up to and including smembers; 401 when not authenticated
LogoutAllStart(r, b) ==
    /\ inflight[r].pc = "idle"
    /\ LET rd == logout_all_read(redis, fs[b])
       IN  /\ redis' = rd.R
           /\ fs' = [fs EXCEPT ![b] = rd.sess]
           /\ inflight' = IF rd.user = NoEmail THEN inflight
                          ELSE [inflight EXCEPT ![r] =
                                   [Idle EXCEPT !.pc = "logout_all", !.b = b,
                                                !.sess = rd.sess, !.user = rd.user,
                                                !.all_sessions = rd.all_sessions]]
    /\ UNCHANGED <<http, storeUp, limiter, redisOn, nextLogin, nextSid, nextTok, usedStates, redeemed,
                   loggedOut>>

\* the pipeline of logout_all on the snapshot, and session.clear()
LogoutAllEnd(r) ==
    /\ inflight[r].pc = "logout_all"
    /\ redis' = logout_all_write(redis, inflight[r].user, inflight[r].all_sessions)
    /\ fs' = [fs EXCEPT ![inflight[r].b] = EmptySession]
    /\ inflight' = [inflight EXCEPT ![r] = Idle]
    /\ UNCHANGED <<http, storeUp, limiter, redisOn, nextLogin, nextSid, nextTok, usedStates, redeemed,
                   loggedOut>>

NextConc ==
    \/ \E b \in Browsers : LoginConc(b)
    \/ \E r \in Reqs, b \in Browsers, req \in ConcReqs : CallbackStart(r, b, req)
    \/ \E r \in Reqs : CallbackEnd(r)
    \/ \E r \in Reqs, b \in Browsers : LogoutAllStart(r, b)
    \/ \E r \in Reqs : LogoutAllEnd(r)

SpecConc == InitConc /\ [][NextConc]_vars

\* ================================================================= claims
\* What the claims call a valid identity token: every Verifier check holds.
PassesVerifier(t) ==
    /\ t.sig
    /\ t.iss \in GoogleIssuers
    /\ t.aud = GOOGLE_CLIENT_ID
    /\ OAUTH_REQUIRE_WORKSPACE_DOMAIN =>
          (t.hd = GOOGLE_WORKSPACE_DOMAIN /\ t.email[2] = GOOGLE_WORKSPACE_DOMAIN)
    /\ t.email_verified

\* The number of checks of the OAuth flow, taken in the order of the flow,
\* that request req satisfies against browser session s: 1 the CSRF state,
\* 2 the ten-minute limit, 3 the code exchange, 4 the ID-token Verifier,
\* 5 the nonce.
ChecksPassed(s, req) ==
    IF ~(req.state # 0 /\ req.state = s.oauth_state) THEN 0
    ELSE IF s.oauth_timestamp > OAuthTimeout THEN 1
    ELSE IF ~(req.code /\ req.exch = "ok") THEN 2
    ELSE IF ~PassesVerifier(req.tok) THEN 3
    ELSE IF ~(req.tok.nonce # 0 /\ req.tok.nonce = s.oauth_nonce) THEN 4
    ELSE 5

\* A Session for email exists and is the one browser session s points to.
HasSession(R, s, email) ==
    /\ s.session_id # 0
    /\ IF redisOn
       THEN /\ s.session_id \in DOMAIN R.sessions
            /\ R.sessions[s.session_id].email = email
       ELSE s.user_data = email

\* C1: a callback without provider error whose state is the one login()
\* issued to this browser, within ten minutes, with a successful code
\* exchange and an identity token that passes the Verifier and carries the
\* issued nonce, creates a Session for the token's email, and GET
\* /auth/status from that browser then reports authenticated with that email.
C1_ValidCallbackAuthenticates ==
    \A b \in Browsers, req \in CallbackReqs :
        (~req.error /\ ChecksPassed(fs[b], req) = 5) =>
            LET c == callback(redis, fs[b], req, nextSid, nextTok)
            IN  /\ c.status = 302
                /\ HasSession(c.R, c.sess, req.tok.email)
                /\ c.sess.session_id = nextSid
                /\ auth_status(c.R, c.sess, 0).user = req.tok.email

\* a valid callback has been answered and the browser's next status check
\* reported the user as authenticated
C1_Witness ==
    \E b \in Browsers :
          /\ fs[b].user_email \in Users
          /\ HasSession(redis, fs[b], fs[b].user_email)
          /\ fs[b].oauth_state = 0 /\ fs[b].oauth_nonce = 0

\* the record sets of the store, TTLs aside, and the fallback Session of s
Records(R) ==
    [sessions |-> DOMAIN R.sessions,
     user_sessions |-> {<<e, smembers(R, e)>> : e \in DOMAIN R.user_sessions},
     auth_token |-> DOMAIN R.auth_token,
     api_token |-> DOMAIN R.api_token]
Fallback(s) == <<s.session_id, s.user_data, s.auth_tokens>>

\* the outcomes a callback may have after passing exactly p checks
ReasonsAt(p) ==
    CASE p = 0 -> {"csrf"}
      [] p = 1 -> {"timeout"}
      [] p = 2 -> {"no_code", "exchange_failed", "no_id_token"}
      [] p = 3 -> {"invalid_id_token"}
      [] p = 4 -> {"nonce"}
      [] OTHER -> {"ok"}

\* C2: a Session record, with its index entry and bridge token, exists only
\* for a flow that passed, in this order, CSRF verification, the ten-minute
\* check, the code exchange, the Verifier and the nonce check: every Session
\* id was handed out to a callback that consumed a state value, a callback
\* ends in the first check of that order it does not satisfy, and a rejected
\* callback leaves Sessions, index entries, bridge and API tokens unchanged.
C2_SessionOnlyAfterAllChecks ==
    /\ DOMAIN redis.sessions \subseteq 1..(nextSid - 1)
    /\ nextSid - 1 <= Cardinality(usedStates)
    /\ \A t \in DOMAIN redis.auth_token :
          redis.auth_token[t].session_id \in 1..(nextSid - 1)
    /\ \A b \in Browsers, req \in CallbackReqs :
          LET c == callback(redis, fs[b], req, nextSid, nextTok)
              p == ChecksPassed(fs[b], req)
          IN  /\ (c.reason = "ok") <=> (~req.error /\ p = 5)
              /\ ~req.error => c.reason \in ReasonsAt(p)
              /\ c.reason # "ok" =>
                    /\ Records(c.R) = Records(redis)
                    /\ Fallback(c.sess) = Fallback(fs[b])

\* a Session with its index entry and its bridge token is in the store
C2_Witness ==
    \E sid \in DOMAIN redis.sessions, t \in DOMAIN redis.auth_token :
        /\ sid \in smembers(redis, redis.sessions[sid].email)
        /\ redis.auth_token[t].session_id = sid
        /\ usedStates # {}

\* C3 as stated: every callback presenting a state value that an earlier
\* callback has used is rejected with 403 and creates no Session.
C3_ReplayAlways403 ==
    \A b \in Browsers, req \in CallbackReqs :
        req.state \in usedStates =>
            LET c == callback(redis, fs[b], req, nextSid, nextTok)
            IN  /\ c.status = 403
                /\ Records(c.R) = Records(redis)
                /\ Fallback(c.sess) = Fallback(fs[b])

\* C3 amended: a callback presenting a used state value creates no Session
\* and is rejected with 403 when it carries no provider error, with 400
\* (before the state is looked at) when it does.
C3_ReplayRejected ==
    \A b \in Browsers, req \in CallbackReqs :
        req.state \in usedStates =>
            LET c == callback(redis, fs[b], req, nextSid, nextTok)
            IN  /\ c.status = IF req.error THEN 400 ELSE 403
                /\ Records(c.R) = Records(redis)
                /\ Fallback(c.sess) = Fallback(fs[b])

\* a state value has just been used by a callback that created a Session
C3_Witness ==
    \E b \in Browsers :
        /\ usedStates # {}
        /\ fs[b].oauth_state = 0
        /\ fs[b].user_email \in Users
        /\ HasSession(redis, fs[b], fs[b].user_email)

\* the pending flow of browser session s is older than ten minutes
Late(s) == s.oauth_state # 0 /\ s.oauth_timestamp > OAuthTimeout

\* C5 as stated: a callback carrying the state of a flow older than ten
\* minutes is rejected with 403 and creates no Session; one arriving at or
\* before ten minutes is not rejected by the time check.
C5_LateCallback403 ==
    \A b \in Browsers, req \in CallbackReqs :
        LET c == callback(redis, fs[b], req, nextSid, nextTok)
        IN  /\ (Late(fs[b]) /\ req.state = fs[b].oauth_state) =>
                  /\ c.status = 403
                  /\ Records(c.R) = Records(redis)
                  /\ Fallback(c.sess) = Fallback(fs[b])
            /\ ~Late(fs[b]) => c.reason # "timeout"

\* C5 amended: a callback carrying the state of a flow older than ten minutes
\* creates no Session; without a provider error it is rejected with 403 by
\* the time check, with one it is answered 400; a callback arriving at or
\* before ten minutes is not rejected by the time check.
C5_LateCallbackRejected ==
    \A b \in Browsers, req \in CallbackReqs :
        LET c == callback(redis, fs[b], req, nextSid, nextTok)
        IN  /\ (Late(fs[b]) /\ req.state = fs[b].oauth_state) =>
                  /\ IF req.error THEN c.status = 400
                     ELSE c.status = 403 /\ c.reason = "timeout"
                  /\ Records(c.R) = Records(redis)
                  /\ Fallback(c.sess) = Fallback(fs[b])
            /\ ~Late(fs[b]) => c.reason # "timeout"

\* a flow is pending for more than ten minutes, its nonce still stored
C5_Witness ==
    \E b \in Browsers :
        Late(fs[b]) /\ fs[b].oauth_nonce = fs[b].oauth_state

\* the browser sessions a request may come with
SessionOf(b) == IF b = NoBrowser THEN EmptySession ELSE fs[b]

\* C6: once a bridge token has been redeemed its record is gone, and every
\* later exchange-token with it answers 401 and mints no API token.
C6_BridgeTokenSingleUse ==
    \A t \in redeemed, b \in Browsers \cup {NoBrowser} :
        LET x == exchange_token(redis, SessionOf(b), t, nextTok)
        IN  /\ x.status = 401
            /\ x.token = 0
            /\ Records(x.R) = Records(redis)
            /\ t \notin DOMAIN redis.auth_token
            /\ t \notin SessionOf(b).auth_tokens

\* a bridge token has been redeemed
C6_Witness ==
    /\ redeemed # {}
    /\ redisOn => \E a \in DOMAIN redis.api_token : a \notin redeemed

\* C7: an API token whose Session was destroyed by logout validates to
\* absent, and GET /auth/status with it as bearer and no cookie reports
\* not authenticated, while the API token record is still in the store.
C7_ApiTokenOfLoggedOutSession ==
    \A t \in DOMAIN redis.api_token :
        redis.api_token[t].session_id \in loggedOut =>
            /\ validate_api_token(redis, t).user = NoEmail
            /\ auth_status(redis, EmptySession, t).user = NoEmail

\* an unexpired API token whose Session logout has destroyed
C7_Witness ==
    \E t \in DOMAIN redis.api_token :
        redis.api_token[t].session_id \in loggedOut

\* C8: after logout-all by user U no Session of U that was live before the
\* call authenticates any more, neither through a cookie nor through an API
\* token resolving to it, and every cookie and API token that authenticated
\* another user still does.
C8_LogoutAllRevokesEverySession ==
    \A b \in Browsers :
        LET l == logout_all(redis, fs[b])
            after(c) == IF c = b THEN l.sess ELSE fs[c]
        IN  (redisOn /\ l.status = 200) =>
                /\ \A c \in Browsers :
                      LET u == get_user_session(redis, fs[c]).user
                      IN  u # NoEmail =>
                             get_user_session(l.R, after(c)).user
                                 = IF u = l.user THEN NoEmail ELSE u
                /\ \A t \in DOMAIN redis.api_token :
                      LET u == validate_api_token(redis, t).user
                      IN  u # NoEmail =>
                             validate_api_token(l.R, t).user
                                 = IF u = l.user THEN NoEmail ELSE u

\* C9: a Session record is readable exactly if its id is in the
\* UserSessionIndex of its owner's email.
C9_SessionIffIndexed ==
    \A sid \in 1..MaxSessions, e \in Users :
        (sid \in DOMAIN redis.sessions /\ redis.sessions[sid].email = e)
            <=> sid \in smembers(redis, e)

\* C4: at most one Session results from one login(): of the callbacks that
\* carry the state of one login(), also when they are processed at the same
\* time, at most one passes CSRF verification and creates a Session.
C4_OneSessionPerLogin == nextSid <= nextLogin

\* C10: a Session created for U while a logout-all for U is between its index
\* snapshot and its cleanup is not dropped: its record stays readable and its
\* id stays in U's UserSessionIndex.
C10_CreatedSessionStaysIndexed ==
    \A sid \in DOMAIN redis.sessions :
        sid \in smembers(redis, redis.sessions[sid].email)

\* ------------------------------------------------------------ rate limiter
\* security_middleware.py: RateLimiter.  A limit string is modelled as the
\* list of its words, the unit word as the list of its characters.
MaxCalls == 7                       \* calls counted under one key

Keys == {"ip1", "ip2"}              \* request.remote_addr
NoLimit == <<>>                     \* limit=None
Minute == <<"m", "i", "n", "u", "t", "e">>
Seconds == <<"s", "e", "c", "o", "n", "d", "s">>
Hour == <<"h", "o", "u", "r">>
FivePerMinute == <<"5", "per", Minute>>
TwoPerSeconds == <<"2", "per", Seconds>>
DefaultLimit == <<"100", "per", Hour>>      \* default_limit='100 per hour'
LimitStrings == {FivePerMinute, TwoPerSeconds}

\* int(parts[0]) on the count words in use; any other word raises ValueError
IntOf == [w \in {"2", "5", "100"} |-> CASE w = "2" -> 2 [] w = "5" -> 5 [] OTHER -> 100]

period_map ==
    [u \in {<<"s", "e", "c", "o", "n", "d">>, Minute, Hour, <<"d", "a", "y">>} |->
        CASE u = Minute -> 60
          [] u = Hour -> 3600
          [] u = <<"d", "a", "y">> -> 86400
          [] OTHER -> 1]

\* str.rstrip('s')
RECURSIVE rstrip_s(_)
rstrip_s(w) ==
    IF Len(w) > 0 /\ w[Len(w)] = "s" THEN rstrip_s(SubSeq(w, 1, Len(w) - 1)) ELSE w

\* RateLimiter._parse_limit on the words of limit_string
parse_limit(parts) ==
    IF Len(parts) < 1 \/ parts[1] \notin DOMAIN IntOf \/ Len(parts) < 3
    THEN [count |-> 0, seconds |-> 0, raised |-> TRUE]
    ELSE [count |-> IntOf[parts[1]],
          seconds |-> IF rstrip_s(parts[3]) \in DOMAIN period_map
                      THEN period_map[rstrip_s(parts[3])] ELSE 3600,
          raised |-> FALSE]

\* the counter rate_limit:<key>: its value, its TTL in seconds, and (history)
\* the seconds since the call that created it, counted up to one minute, and
\* the limit of the calls counted in it (NoLimit once two limits were mixed)
Count(L, key) == IF key \in DOMAIN L.counters THEN L.counters[key].count ELSE 0
SinceCreated(L, key) ==
    IF key \in DOMAIN L.counters THEN L.counters[key].age ELSE 0
LimitsOf(L, key, limit) ==
    IF key \notin DOMAIN L.counters \/ L.counters[key].only = limit THEN limit ELSE NoLimit
Min(a, b) == IF a < b THEN a ELSE b

\* check_rate_limit that answers False when the store command fails
check_rate_limit_fail_closed(L, up, key, limit) ==
    LET lim == IF limit = NoLimit THEN parse_limit(DefaultLimit) ELSE parse_limit(limit)
    IN  IF lim.raised THEN [L |-> L, ok |-> FALSE, raised |-> TRUE]
        ELSE IF ~L.redis \/ ~up THEN [L |-> L, ok |-> FALSE, raised |-> FALSE]
        ELSE [L |-> [L EXCEPT !.counters =
                        Put(@, key, [count |-> Count(L, key) + 1, ttl |-> lim.seconds,
                                     age |-> SinceCreated(L, key),
                                     only |-> LimitsOf(L, key, limit)])],
              ok |-> ~(Count(L, key) + 1 > lim.count),
              raised |-> FALSE]

\* RateLimiter.check_rate_limit: INCR and EXPIRE in one pipeline; a failing
\* pipeline, or self.redis = None, is caught and answered True
check_rate_limit(L, up, key, limit) ==
    LET lim == IF limit = NoLimit THEN parse_limit(DefaultLimit) ELSE parse_limit(limit)
    IN  IF lim.raised THEN [L |-> L, ok |-> FALSE, raised |-> TRUE]
        ELSE IF ~L.redis \/ ~up THEN [L |-> L, ok |-> TRUE, raised |-> FALSE]
        ELSE [L |-> [L EXCEPT !.counters =
                        Put(@, key, [count |-> Count(L, key) + 1, ttl |-> lim.seconds,
                                     age |-> SinceCreated(L, key),
                                     only |-> LimitsOf(L, key, limit)])],
              ok |-> ~(Count(L, key) + 1 > lim.count),
              raised |-> FALSE]

\* the rate_limit decorator around a handler that answers 200
rate_limit(L, up, key, limit) ==
    LET c == check_rate_limit(L, up, key, limit)
    IN  [L |-> c.L,
         status |-> IF c.raised THEN 500 ELSE IF ~c.ok THEN 429 ELSE 200]

\* twenty seconds pass for the counters
ExpireCounters(L) ==
    [L EXCEPT !.counters =
        [k \in {x \in DOMAIN @ : @[x].ttl > 20} |->
            [count |-> @[k].count, ttl |-> @[k].ttl - 20, only |-> @[k].only,
             age |-> Min(@[k].age + 20, parse_limit(FivePerMinute).seconds)]]]

\* RateLimiter(redis_client, ...) with the client the application ended up
\* with: none when the store is disabled, the store may answer or not
InitRate ==
    /\ redisOn \in BOOLEAN
    /\ storeUp \in BOOLEAN
    /\ limiter = [redis |-> redisOn, counters |-> <<>>, admitted |-> <<>>]
    /\ fs = [b \in Browsers |-> EmptySession]
    /\ redis = EmptyRedis
    /\ nextLogin = 1 /\ nextSid = 1 /\ nextTok = 1
    /\ usedStates = {} /\ redeemed = {} /\ loggedOut = {}
    /\ inflight = [r \in Reqs |-> Idle]
    /\ http = NoHttp

\* a request to a rate-limited route from address key
RateRequest(key, limit) ==
    /\ Count(limiter, key) < MaxCalls
    /\ limiter' = rate_limit(limiter, storeUp, key, limit).L
    /\ UNCHANGED <<http, storeUp, redisOn, fs, redis, nextLogin, nextSid, nextTok,
                   usedStates, redeemed, loggedOut, inflight>>

RateTick ==
    /\ limiter' = ExpireCounters(limiter)
    /\ UNCHANGED <<http, storeUp, redisOn, fs, redis, nextLogin, nextSid, nextTok,
                   usedStates, redeemed, loggedOut, inflight>>

\* the store stops or resumes answering
StoreFail ==
    /\ storeUp /\ storeUp' = FALSE
    /\ UNCHANGED <<http, limiter, redisOn, fs, redis, nextLogin, nextSid, nextTok,
                   usedStates, redeemed, loggedOut, inflight>>

StoreRecover ==
    /\ ~storeUp /\ storeUp' = TRUE
    /\ UNCHANGED <<http, limiter, redisOn, fs, redis, nextLogin, nextSid, nextTok,
                   usedStates, redeemed, loggedOut, inflight>>

NextRate ==
    \/ \E key \in Keys, limit \in LimitStrings : RateRequest(key, limit)
    \/ RateTick
    \/ StoreFail
    \/ StoreRecover

SpecRate == InitRate /\ [][NextRate]_vars

\* C11: for a fixed key and the limit '5 per minute' a call is admitted while
\* fewer than 5 calls were counted, the next call inside the window is
\* refused, and once 60 seconds have passed since the call that created the
\* counter the next call is admitted again.
C11_FixedWindow ==
    \A key \in Keys :
        LET lim == parse_limit(FivePerMinute)
            c == check_rate_limit(limiter, storeUp, key, FivePerMinute)
        IN  (limiter.redis /\ storeUp /\ LimitsOf(limiter, key, FivePerMinute) = FivePerMinute) =>
                /\ Count(limiter, key) < lim.count => c.ok
                /\ (Count(limiter, key) >= lim.count
                       /\ SinceCreated(limiter, key) < lim.seconds) => ~c.ok
                /\ (key \in DOMAIN limiter.counters
                       /\ SinceCreated(limiter, key) >= lim.seconds) => c.ok

\* C12: when the store command of check_rate_limit fails, or the limiter has
\* no store client, check_rate_limit answers True without raising, changes no
\* counter, and the decorated handler runs.
C12_LimiterFailsOpen ==
    \A key \in Keys, limit \in LimitStrings \cup {NoLimit} :
        (~limiter.redis \/ ~storeUp) =>
            LET c == check_rate_limit(limiter, storeUp, key, limit)
            IN  /\ c.ok /\ ~c.raised
                /\ c.L = limiter
                /\ rate_limit(limiter, storeUp, key, limit).status = 200

\* the store fails while a counter is already over its limit
C12_Witness ==
    /\ limiter.redis /\ ~storeUp
    /\ \E key \in Keys : Count(limiter, key) > parse_limit(FivePerMinute).count

\* every combination of claim values an identity token may decode to; sig
\* stands for a valid signature and expiry, "" and NoEmail for a missing claim
AllIdTokens ==
    [sig : BOOLEAN,
     iss : GoogleIssuers \cup {"https://evil.example", ""},
     aud : {GOOGLE_CLIENT_ID, "other-client"},
     hd : {GOOGLE_WORKSPACE_DOMAIN, "other.com", ""},
     email : {U1, <<"u1", "other.com">>, NoEmail},
     email_verified : BOOLEAN,
     nonce : {1}]

\* the callback that hands token t to the pending flow of browser session s
TokenReq(s, t) ==
    [NoReq EXCEPT !.state = s.oauth_state, !.code = TRUE, !.exch = "ok", !.tok = t]

\* C13: verify_google_token returns the claim set exactly if signature and
\* expiry are valid, the issuer is Google's, the audience is the configured
\* client id, the hd claim and the email's domain are the configured domain,
\* and email_verified is true; otherwise it returns the invalid outcome, in
\* particular for every token whose hd claim differs from the domain, and a
\* callback that reaches the Verifier with such a token creates no Session.
C13_VerifierAcceptsExactlyValidTokens ==
    \A t \in AllIdTokens :
        /\ verify_google_token(t) = IF PassesVerifier(t) THEN t ELSE NoIdInfo
        /\ t.hd # GOOGLE_WORKSPACE_DOMAIN => verify_google_token(t) = NoIdInfo
        /\ \A b \in Browsers :
              (fs[b].oauth_state # 0 /\ ~Late(fs[b])) =>
                  LET c == callback(redis, fs[b], TokenReq(fs[b], t), nextSid, nextTok)
                  IN  /\ (c.reason = "invalid_id_token") <=> ~PassesVerifier(t)
                      /\ ~PassesVerifier(t) =>
                            /\ c.status = 403
                            /\ Records(c.R) = Records(redis)
                            /\ Fallback(c.sess) = Fallback(fs[b])

\* a pending flow is handed a token that is valid but for its hd claim
C13_Witness ==
    \E b \in Browsers :
        /\ fs[b].oauth_state # 0 /\ ~Late(fs[b])
        /\ LET t == [GoodToken(U1, fs[b].oauth_nonce) EXCEPT !.hd = "other.com"]
           IN  /\ t \in AllIdTokens
               /\ callback(redis, fs[b], TokenReq(fs[b], t), nextSid, nextTok).reason
                      = "invalid_id_token"

\* ---------------------------------------------------------- store failures
\* A request is given the number n of store commands that still succeed
\* before the store stops answering; n = -1 when it answers all of them.
\* raised: an exception leaves the function; failed: a command has failed.
\* init_redis: the module's redis_client is assigned before ping() is tried
init_redis(disable_redis, reachable) ==
    IF disable_redis THEN [redis_client |-> FALSE, raised |-> FALSE]
    ELSE [redis_client |-> TRUE, raised |-> ~reachable]

\* app_secure.py start-up: the client of the auth handlers (the global of
\* oauth_handler) and the client the application keeps for the RateLimiter
app_start(disable_redis, reachable) ==
    LET i == init_redis(disable_redis, reachable)
    IN  [started |-> TRUE,
         handler_client |-> ~disable_redis /\ i.redis_client,
         app_client |-> ~disable_redis /\ ~i.raised]

\* get_user_session whose failing refresh still returns the Session
get_user_session_io_fail_open(R, s, n) ==
    LET g == get_user_session(R, s)
        Res(R0, s0, u, r, f, m) ==
            [R |-> R0, sess |-> s0, user |-> u, raised |-> r, failed |-> f, n |-> m]
    IN  IF s.session_id = 0 \/ ~redisOn \/ n = -1
        THEN Res(g.R, g.sess, g.user, FALSE, FALSE, n)
        ELSE IF n = 0 THEN Res(R, s, NoEmail, TRUE, TRUE, 0)
        ELSE IF s.session_id \notin DOMAIN R.sessions
        THEN Res(g.R, g.sess, g.user, FALSE, FALSE, n - 1)
        ELSE IF n = 1 THEN Res(R, s, g.user, FALSE, TRUE, 0)
        ELSE Res(g.R, g.sess, g.user, FALSE, FALSE, n - 2)

\* get_user_session: GET outside the try block, SETEX inside it
get_user_session_io(R, s, n) ==
    LET g == get_user_session(R, s)
        Res(R0, s0, u, r, f, m) ==
            [R |-> R0, sess |-> s0, user |-> u, raised |-> r, failed |-> f, n |-> m]
    IN  IF s.session_id = 0 \/ ~redisOn \/ n = -1
        THEN Res(g.R, g.sess, g.user, FALSE, FALSE, n)
        ELSE IF n = 0 THEN Res(R, s, NoEmail, TRUE, TRUE, 0)
        ELSE IF s.session_id \notin DOMAIN R.sessions
        THEN Res(g.R, g.sess, g.user, FALSE, FALSE, n - 1)
        ELSE IF n = 1 THEN Res(R, EmptySession, NoEmail, FALSE, TRUE, 0)
        ELSE Res(g.R, g.sess, g.user, FALSE, FALSE, n - 2)

\* validate_api_token: first GET outside the try block, the Session GET and
\* EXPIRE inside it
validate_api_token_io(R, token, n) ==
    LET v == validate_api_token(R, token)
        Res(R0, u, r, f, m) ==
            [R |-> R0, user |-> u, raised |-> r, failed |-> f, n |-> m]
    IN  IF token = 0 \/ ~redisOn \/ n = -1 THEN Res(v.R, v.user, FALSE, FALSE, n)
        ELSE IF n = 0 THEN Res(R, NoEmail, TRUE, TRUE, 0)
        ELSE IF token \notin DOMAIN R.api_token THEN Res(R, NoEmail, FALSE, FALSE, n - 1)
        ELSE IF n = 1 THEN Res(R, NoEmail, FALSE, TRUE, 0)
        ELSE IF v.user = NoEmail THEN Res(R, NoEmail, FALSE, FALSE, n - 2)
        ELSE IF n = 2 THEN Res(R, NoEmail, FALSE, TRUE, 0)
        ELSE Res(v.R, v.user, FALSE, FALSE, n - 3)

\* validate_auth_token: first GET outside the try block, the Session GET in it
validate_auth_token_io(R, s, token, n) ==
    LET v == validate_auth_token(R, s, token)
        Res(u, r, f, m) == [user |-> u, raised |-> r, failed |-> f, n |-> m]
    IN  IF token = 0 \/ ~redisOn \/ n = -1 THEN Res(v, FALSE, FALSE, n)
        ELSE IF n = 0 THEN Res(NoEmail, TRUE, TRUE, 0)
        ELSE IF token \notin DOMAIN R.auth_token THEN Res(NoEmail, FALSE, FALSE, n - 1)
        ELSE IF n = 1 THEN Res(NoEmail, FALSE, TRUE, 0)
        ELSE Res(v, FALSE, FALSE, n - 2)

\* GET /auth/status; an exception that leaves the view is answered 500
auth_status_io(R, s, bearer, n) ==
    LET api == validate_api_token_io(R, bearer, n)
        tmp == validate_auth_token_io(R, s, bearer, api.n)
        g == get_user_session_io(R, s, IF bearer = 0 THEN n ELSE tmp.n)
        Res(R0, s0, u, st, f) ==
            [R |-> R0, sess |-> s0, user |-> u, status |-> st, failed |-> f]
    IN  IF bearer # 0 /\ api.raised THEN Res(R, s, NoEmail, 500, TRUE)
        ELSE IF bearer # 0 /\ api.user # NoEmail THEN Res(api.R, s, api.user, 200, api.failed)
        ELSE IF bearer # 0 /\ tmp.raised THEN Res(R, s, NoEmail, 500, TRUE)
        ELSE IF bearer # 0 /\ tmp.user # NoEmail
        THEN Res(R, s, tmp.user, 200, api.failed \/ tmp.failed)
        ELSE IF g.raised THEN Res(R, s, NoEmail, 500, TRUE)
        ELSE Res(g.R, g.sess, g.user, 200,
                 g.failed \/ (bearer # 0 /\ (api.failed \/ tmp.failed)))

\* login_required around a handler that answers 200: only get_user_session
\* is consulted, the Authorization header is not read
\* login_required that redirects without remembering the requested URL
login_required_forgets_url(R, s, bearer, is_json, url, n) ==
    LET g == get_user_session_io(R, s, n)
        Res(R0, s0, u, st, f) ==
            [R |-> R0, sess |-> s0, user |-> u, status |-> st, failed |-> f]
    IN  IF g.raised THEN Res(R, s, NoEmail, 500, TRUE)
        ELSE IF g.user = NoEmail
        THEN IF is_json THEN Res(g.R, g.sess, NoEmail, 401, g.failed)
             ELSE Res(g.R, g.sess, NoEmail, 302, g.failed)
        ELSE Res(g.R, g.sess, g.user, 200, g.failed)

login_required(R, s, bearer, is_json, url, n) ==
    LET g == get_user_session_io(R, s, n)
        Res(R0, s0, u, st, f) ==
            [R |-> R0, sess |-> s0, user |-> u, status |-> st, failed |-> f]
    IN  IF g.raised THEN Res(R, s, NoEmail, 500, TRUE)
        ELSE IF g.user = NoEmail
        THEN IF is_json THEN Res(g.R, g.sess, NoEmail, 401, g.failed)
             ELSE Res(g.R, [g.sess EXCEPT !.next_url = url], NoEmail, 302, g.failed)
        ELSE Res(g.R, g.sess, g.user, 200, g.failed)

\* callback: the pipeline of create_user_session and the SETEX of the bridge
\* token are outside any try block
callback_io(R, s, req, session_id, auth_token, n) ==
    LET c == callback(R, s, req, session_id, auth_token)
        s3 == [s EXCEPT !.oauth_state = 0, !.oauth_timestamp = -1, !.oauth_nonce = 0]
        created == create_user_session(R, s3, verify_google_token(req.tok), session_id)
        Res(R0, s0, st, rs, f) ==
            [R |-> R0, sess |-> s0, status |-> st, reason |-> rs, failed |-> f]
    IN  IF c.reason # "ok" \/ ~redisOn \/ n = -1 \/ n >= 2
        THEN Res(c.R, c.sess, c.status, c.reason, FALSE)
        ELSE IF n = 0 THEN Res(R, s3, 500, "store_error", TRUE)
        ELSE Res(created.R, created.sess, 500, "store_error", TRUE)

\* logout: DELETE and SREM are outside any try block
logout_io(R, s, n) ==
    LET l == logout(R, s)
        Res(R0, s0, st, f) == [R |-> R0, sess |-> s0, status |-> st, failed |-> f]
    IN  IF s.session_id = 0 \/ ~redisOn \/ n = -1 \/ n >= 2
        THEN Res(l.R, l.sess, l.status, FALSE)
        ELSE IF n = 0 THEN Res(R, s, 500, TRUE)
        ELSE Res([R EXCEPT !.sessions = Del(@, {s.session_id})], s, 500, TRUE)

\* exchange_token: first GET outside the try block; the Session GET, the SETEX
\* of the API token and the DELETE of the bridge token inside it
exchange_token_io(R, s, temp_token, api_token, n) ==
    LET x == exchange_token(R, s, temp_token, api_token)
        Res(R0, s0, st, tk, f) ==
            [R |-> R0, sess |-> s0, status |-> st, token |-> tk, failed |-> f]
    IN  IF temp_token = 0 \/ ~redisOn \/ n = -1 \/ n >= 4 \/ x.status # 200
           \/ (n >= 1 /\ temp_token \notin DOMAIN R.auth_token)
        THEN IF n = 0 /\ temp_token # 0 /\ redisOn
             THEN Res(R, s, 500, 0, TRUE)
             ELSE Res(x.R, x.sess, x.status, x.token, FALSE)
        ELSE IF n <= 2 THEN Res(R, s, 500, 0, TRUE)
        ELSE Res([x.R EXCEPT !.auth_token = R.auth_token], s, 500, 0, TRUE)

Budgets == {-1, 0, 1, 2, 3}

\* the application starts; the store may be disabled or may fail the ping
Startup ==
    /\ \E disable_redis \in BOOLEAN, reachable \in BOOLEAN :
          LET a == app_start(disable_redis, reachable)
          IN  /\ redisOn = a.handler_client
              /\ storeUp = reachable
              /\ limiter = [redis |-> a.app_client, counters |-> <<>>, admitted |-> <<>>]
    /\ fs = [b \in Browsers |-> EmptySession]
    /\ redis = EmptyRedis
    /\ nextLogin = 1 /\ nextSid = 1 /\ nextTok = 1
    /\ usedStates = {} /\ redeemed = {} /\ loggedOut = {}
    /\ inflight = [r \in Reqs |-> Idle]
    /\ http = NoHttp

\* the budget of a request that asks for k commands
Budget(k) == IF storeUp THEN k ELSE 0

CallbackS(b, req, k) ==
    /\ LET c == callback_io(redis, fs[b], req, nextSid, nextTok, Budget(k))
       IN  /\ redis' = c.R
           /\ fs' = [fs EXCEPT ![b] = c.sess]
           /\ nextSid' = IF c.sess.session_id = nextSid THEN nextSid + 1 ELSE nextSid
           /\ nextTok' = IF c.reason = "ok" THEN nextTok + 1 ELSE nextTok
           /\ usedStates' = IF c.reason \notin {"provider_error", "csrf"}
                            THEN usedStates \cup {req.state} ELSE usedStates
           /\ storeUp' = (storeUp /\ ~c.failed)
    /\ UNCHANGED <<http, limiter, redisOn, nextLogin, redeemed, loggedOut, inflight>>

StatusS(b, bearer, k) ==
    /\ LET st == auth_status_io(redis, IF b = NoBrowser THEN EmptySession ELSE fs[b],
                                bearer, Budget(k))
       IN  /\ redis' = st.R
           /\ fs' = IF b = NoBrowser THEN fs ELSE [fs EXCEPT ![b] = st.sess]
           /\ storeUp' = (storeUp /\ ~st.failed)
    /\ UNCHANGED <<http, limiter, redisOn, nextLogin, nextSid, nextTok, usedStates,
                   redeemed, loggedOut, inflight>>

\* a request to an endpoint behind login_required, e.g. POST /auth/refresh
Guarded(b, bearer, is_json, k) ==
    /\ LET g == login_required(redis, fs[b], bearer, is_json, GuardedUrl, Budget(k))
       IN  /\ redis' = g.R
           /\ fs' = [fs EXCEPT ![b] = g.sess]
           /\ storeUp' = (storeUp /\ ~g.failed)
    /\ UNCHANGED <<http, limiter, redisOn, nextLogin, nextSid, nextTok, usedStates,
                   redeemed, loggedOut, inflight>>

LogoutS(b, k) ==
    /\ LET l == logout_io(redis, fs[b], Budget(k))
       IN  /\ redis' = l.R
           /\ fs' = [fs EXCEPT ![b] = l.sess]
           /\ loggedOut' = IF fs[b].session_id \in DOMAIN redis.sessions
                              /\ fs[b].session_id \notin DOMAIN l.R.sessions
                           THEN loggedOut \cup {fs[b].session_id} ELSE loggedOut
           /\ storeUp' = (storeUp /\ ~l.failed)
    /\ UNCHANGED <<http, limiter, redisOn, nextLogin, nextSid, nextTok, usedStates,
                   redeemed, inflight>>

ExchangeTokenS(b, temp_token, k) ==
    /\ nextTok <= MaxTokens
    /\ LET x == exchange_token_io(redis, IF b = NoBrowser THEN EmptySession ELSE fs[b],
                                  temp_token, nextTok, Budget(k))
       IN  /\ redis' = x.R
           /\ fs' = IF b = NoBrowser THEN fs ELSE [fs EXCEPT ![b] = x.sess]
           /\ nextTok' = IF nextTok \in DOMAIN x.R.api_token THEN nextTok + 1 ELSE nextTok
           /\ redeemed' = IF x.status = 200 THEN redeemed \cup {temp_token} ELSE redeemed
           /\ storeUp' = (storeUp /\ ~x.failed)
    /\ UNCHANGED <<http, limiter, redisOn, nextLogin, nextSid, usedStates, loggedOut, inflight>>

\* the bearer tokens that differ in effect: none (0), the issued ones, and one
\* that was never issued
Bearers == 0..Min(nextTok, MaxTokens)

\* while the store is down every budget is 0
BudgetsNow == IF storeUp THEN Budgets ELSE {0}

NextStore ==
    \/ \E b \in Browsers : Login(b)
    \/ \E b \in Browsers, req \in FlowReqs, k \in BudgetsNow : CallbackS(b, req, k)
    \/ \E b \in Browsers \cup {NoBrowser}, t \in Bearers, k \in BudgetsNow :
          StatusS(b, t, k)
    \/ \E b \in Browsers, t \in Bearers, j \in BOOLEAN, k \in BudgetsNow :
          Guarded(b, t, j, k)
    \/ \E b \in Browsers, k \in BudgetsNow : LogoutS(b, k)
    \/ \E b \in Browsers \cup {NoBrowser}, t \in Bearers, k \in BudgetsNow :
          ExchangeTokenS(b, t, k)
    \/ StoreFail
    \/ StoreRecover

SpecStore == Startup /\ [][NextStore]_vars

\* C14: a request to an endpoint behind login_required is admitted, with the
\* resolved Session attached, when it carries a valid cookie session and also
\* when it carries only a valid API token as bearer.
C14_GuardAdmitsCookieAndBearer ==
    \A b \in Browsers, t \in Tokens, j \in BOOLEAN :
        LET g == login_required(redis, fs[b], t, j, GuardedUrl, -1)
            byCookie == get_user_session(redis, fs[b]).user
            byBearer == validate_api_token(redis, t).user
        IN  /\ byCookie # NoEmail => (g.status = 200 /\ g.user = byCookie)
            /\ (byCookie = NoEmail /\ byBearer # NoEmail) =>
                  (g.status = 200 /\ g.user = byBearer)

\* C15: after POST /auth/logout answered success the Session under which the
\* caller was authenticated, by cookie or by bearer API token, is gone from
\* the store and from its owner's index, and the same credential reports
\* not authenticated on GET /auth/status.
C15_LogoutDestroysCallersSession ==
    /\ \A b \in Browsers :
          LET u == get_user_session(redis, fs[b]).user
              l == logout(redis, fs[b])
          IN  u # NoEmail =>
                  /\ l.status = 200
                  /\ redisOn => /\ fs[b].session_id \notin DOMAIN l.R.sessions
                                /\ fs[b].session_id \notin smembers(l.R, u)
                  /\ auth_status(l.R, l.sess, 0).user = NoEmail
    /\ \A t \in DOMAIN redis.api_token :
          LET u == validate_api_token(redis, t).user
              l == logout(redis, EmptySession)
          IN  u # NoEmail =>
                  /\ l.status = 200
                  /\ redis.api_token[t].session_id \notin DOMAIN l.R.sessions
                  /\ redis.api_token[t].session_id \notin smembers(l.R, u)
                  /\ auth_status(l.R, l.sess, t).user = NoEmail

\* a valid callback of browser session s
ValidReqs(s) ==
    {req \in CallbackReqs : ~req.error /\ ChecksPassed(s, req) = 5}

\* C16: when the application has no store client after start-up (the store is
\* disabled or failed the connectivity test) the auth handlers have none
\* either, every session operation uses the cookie fallback, and a valid
\* callback establishes a working Session although the store is unreachable.
C16_FallbackAfterFailedStartup ==
    ~limiter.redis =>
        /\ ~redisOn
        /\ \A b \in Browsers : \A req \in ValidReqs(fs[b]) :
              LET c == callback_io(redis, fs[b], req, nextSid, nextTok, 0)
              IN  /\ c.status = 302
                  /\ c.R = redis
                  /\ auth_status_io(c.R, c.sess, 0, 0).user = req.tok.email

C18_NoExceptionOnStoreFailure ==
    \A b \in Browsers \cup {NoBrowser}, t \in Tokens, k \in Budgets :
        /\ ~get_user_session_io(redis, SessionOf(b), Budget(k)).raised
        /\ ~validate_api_token_io(redis, t, Budget(k)).raised
        /\ ~validate_auth_token_io(redis, SessionOf(b), t, Budget(k)).raised
        /\ auth_status_io(redis, SessionOf(b), t, Budget(k)).status = 200
        /\ login_required(redis, SessionOf(b), t, TRUE, GuardedUrl, Budget(k)).status
               \in {200, 401}

\* C19: every successful resolution of a Session, by cookie or by bearer API
\* token, resets the TTL of that Session to the full session lifetime.
C19_EveryReadRefreshesSessionTTL ==
    /\ \A b \in Browsers :
          LET g == get_user_session(redis, fs[b])
          IN  (redisOn /\ g.user # NoEmail) =>
                  g.R.sessions[fs[b].session_id].ttl = SessionLifetime
    /\ \A t \in DOMAIN redis.api_token :
          LET v == validate_api_token(redis, t)
          IN  v.user # NoEmail =>
                  v.R.sessions[redis.api_token[t].session_id].ttl = SessionLifetime

\* C20 as stated: a callback that carries a provider error, or fails CSRF
\* verification, or arrives after more than ten minutes is answered 403 and
\* creates no Session.
C20_Rejected403 ==
    \A b \in Browsers, req \in CallbackReqs :
        (req.error \/ ChecksPassed(fs[b], req) <= 1) =>
            LET c == callback(redis, fs[b], req, nextSid, nextTok)
            IN  /\ c.status = 403
                /\ Records(c.R) = Records(redis)
                /\ Fallback(c.sess) = Fallback(fs[b])

\* C20 amended: such a callback creates no Session; it is answered 400 when
\* it carries a provider error, whatever its state and age, and 403 when it
\* carries none and fails CSRF verification or arrives after ten minutes.
C20_RejectedEarly ==
    \A b \in Browsers, req \in CallbackReqs :
        (req.error \/ ChecksPassed(fs[b], req) <= 1) =>
            LET c == callback(redis, fs[b], req, nextSid, nextTok)
            IN  /\ c.status = IF req.error THEN 400 ELSE 403
                /\ c.reason = IF req.error THEN "provider_error"
                              ELSE IF ChecksPassed(fs[b], req) = 0 THEN "csrf"
                              ELSE "timeout"
                /\ Records(c.R) = Records(redis)
                /\ Fallback(c.sess) = Fallback(fs[b])

\* a flow is pending while another browser is logged in: callbacks with a
\* provider error and callbacks with a foreign state can both be sent
C20_Witness ==
    \E b \in Browsers :
        /\ fs[b].oauth_state # 0
        /\ callback(redis, fs[b], [NoReq EXCEPT !.error = TRUE, !.state = 1],
                    nextSid, nextTok).status = 400
        /\ callback(redis, fs[b], [NoReq EXCEPT !.state = 0],
                    nextSid, nextTok).status = 403
        /\ Late(fs[b])

\* ------------------------------------------------------------ C21 .. C30
\* C21: a call by one caller under one limit neither increments the counter
\* consulted for the same caller under a different limit nor changes the
\* answer that a call under the other limit gets.
C21_CountersPerLimit ==
    \A key \in Keys, l1 \in LimitStrings, l2 \in LimitStrings :
        (l1 # l2 /\ limiter.redis /\ storeUp) =>
            LET c == rate_limit(limiter, storeUp, key, l1)
            IN  /\ Count(c.L, key) = Count(limiter, key)
                /\ check_rate_limit(c.L, storeUp, key, l2).ok
                      = check_rate_limit(limiter, storeUp, key, l2).ok

\* ---- admitted calls per key (history), for the bound on bursts
\* the calls of key under the limit '5 per minute' that were admitted 0, 20,
\* 40 and 60 seconds ago
NoneAdmitted == <<0, 0, 0, 0>>
Admitted(L, key) == IF key \in DOMAIN L.admitted THEN L.admitted[key] ELSE NoneAdmitted

\* the admitted calls of key inside the closed interval of the last w seconds
AdmittedWithin(L, key, w) ==
    LET a == Admitted(L, key)
    IN  a[1] + (IF w >= 20 THEN a[2] ELSE 0) + (IF w >= 40 THEN a[3] ELSE 0)
             + (IF w >= 60 THEN a[4] ELSE 0)

\* a request of key to a route with the given limit: the decorator, and the
\* record of the admission when the handler of a '5 per minute' route ran
BurstRequest(key, limit) ==
    /\ Count(limiter, key) < MaxCalls
    /\ LET r == rate_limit(limiter, storeUp, key, limit)
           a == Admitted(limiter, key)
       IN  limiter' = IF r.status = 200 /\ limit = FivePerMinute
                      THEN [r.L EXCEPT !.admitted = Put(@, key, [a EXCEPT ![1] = @ + 1])]
                      ELSE r.L
    /\ UNCHANGED <<http, storeUp, redisOn, fs, redis, nextLogin, nextSid, nextTok,
                   usedStates, redeemed, loggedOut, inflight>>

\* twenty seconds pass
BurstTick ==
    /\ limiter' = [ExpireCounters(limiter) EXCEPT !.admitted =
                      [k \in DOMAIN @ |-> <<0, @[k][1], @[k][2], @[k][3]>>]]
    /\ UNCHANGED <<http, storeUp, redisOn, fs, redis, nextLogin, nextSid, nextTok,
                   usedStates, redeemed, loggedOut, inflight>>

\* the limiter holds a client and the store answers throughout
InitBurst ==
    /\ redisOn = TRUE
    /\ storeUp = TRUE
    /\ limiter = [redis |-> TRUE, counters |-> <<>>, admitted |-> <<>>]
    /\ fs = [b \in Browsers |-> EmptySession]
    /\ redis = EmptyRedis
    /\ nextLogin = 1 /\ nextSid = 1 /\ nextTok = 1
    /\ usedStates = {} /\ redeemed = {} /\ loggedOut = {}
    /\ inflight = [r \in Reqs |-> Idle]
    /\ http = NoHttp

\* counters of different keys never meet: one caller is followed
NextBurst ==
    \/ \E limit \in LimitStrings : BurstRequest("ip1", limit)
    \/ BurstTick

SpecBurst == InitBurst /\ [][NextBurst]_vars

\* C29: for a fixed key and the limit of 5 per 60 seconds, with the store
\* answering, the calls admitted under that limit inside any interval of 60
\* seconds are at most 2 * 5, whatever other calls are made.
C29_AtMostTwiceTheLimit ==
    \A key \in Keys :
        LET lim == parse_limit(FivePerMinute)
        IN  AdmittedWithin(limiter, key, lim.seconds) <= 2 * lim.count

\* ---- the landing target of the callback
\* GET /auth/login sent from the page referrer
LoginFrom(b, referrer) ==
    /\ nextLogin <= MaxLogins
    /\ fs' = [fs EXCEPT ![b] = login_from(fs[b], nextLogin, referrer)]
    /\ nextLogin' = nextLogin + 1
    /\ UNCHANGED <<http, storeUp, limiter, redisOn, redis, nextSid, nextTok, usedStates,
                   redeemed, loggedOut, inflight>>

\* a browser navigates to a guarded endpoint (not a JSON request)
GuardedPage(b) ==
    /\ LET g == login_required(redis, fs[b], 0, FALSE, GuardedUrl, -1)
       IN  /\ redis' = g.R
           /\ fs' = [fs EXCEPT ![b] = g.sess]
    /\ UNCHANGED <<http, storeUp, limiter, redisOn, nextLogin, nextSid, nextTok, usedStates,
                   redeemed, loggedOut, inflight>>

NextRedirect ==
    \/ \E b \in Browsers, referrer \in Referrers : LoginFrom(b, referrer)
    \/ \E b \in Browsers : GuardedPage(b)
    \/ \E b \in Browsers, req \in FlowReqs : Callback(b, req)
    \/ \E b \in Browsers : Logout(b)
    \/ Tick
    \/ LongTick

SpecRedirect == Init /\ [][NextRedirect]_vars

\* C22: a successful callback attaches the bridge token only to a redirect
\* whose target is on the frontend origin: a remembered URL of another
\* origin is replaced by the default frontend URL.
C22_TokenStaysOnFrontend ==
    \A b \in Browsers, req \in FlowReqs :
        callback(redis, fs[b], req, nextSid, nextTok).reason = "ok" =>
            LET target == redirect_url(fs[b].next_url)
            IN  /\ Origin(target) = FRONTEND_URL
                /\ Origin(fs[b].next_url) # FRONTEND_URL => target = FRONTEND_URL

\* C23: the api_token returned by a successful POST /auth/exchange-token,
\* presented alone as a bearer token (no cookie) to GET /auth/status, is
\* reported authenticated with the same user, with and without the store.
C23_ApiTokenAuthenticatesAlone ==
    \A b \in Browsers \cup {NoBrowser}, t \in Tokens :
        LET x == exchange_token(redis, SessionOf(b), t, nextTok)
        IN  x.status = 200 =>
                /\ x.token # 0
                /\ auth_status(x.R, EmptySession, x.token).user = x.email

\* C24: a bridge token that was not redeemed within five minutes of the
\* callback that minted it cannot be redeemed: whenever exchange-token
\* answers 200 the token is younger than five minutes, with and without the
\* store.
C24_OldBridgeTokenRefused ==
    \A b \in Browsers \cup {NoBrowser}, t \in Tokens :
        LET x == exchange_token(redis, SessionOf(b), t, nextTok)
        IN  x.status = 200 =>
                IF redisOn
                THEN t \in DOMAIN redis.auth_token /\ redis.auth_token[t].ttl >= BridgeTTL
                ELSE t \notin SessionOf(b).old_tokens

\* the URLs of two guarded endpoints
GuardedUrls == {GuardedUrl, BACKEND_URL \o <<"/", "api/user/role">>}

\* C25: for a request whose Session does not resolve (get_user_session
\* returns nothing, also when a store command inside it fails and is caught)
\* the guard never runs the handler: a JSON request is answered 401 and the
\* remembered URL is left alone, any other request is answered 302 with the
\* requested URL remembered in the browser session.
C25_GuardTurnsAwayWithoutSession ==
    \A b \in Browsers, t \in Tokens, url \in GuardedUrls, n \in Budgets :
        LET u == get_user_session_io(redis, fs[b], n)
            j == login_required(redis, fs[b], t, TRUE, url, n)
            h == login_required(redis, fs[b], t, FALSE, url, n)
        IN  (~u.raised /\ u.user = NoEmail) =>
                /\ j.status = 401 /\ j.user = NoEmail
                /\ j.sess.next_url = u.sess.next_url
                /\ h.status = 302 /\ h.user = NoEmail
                /\ h.sess.next_url = url
                /\ Records(j.R) = Records(redis) /\ Records(h.R) = Records(redis)

\* a browser was sent to the login page by the guard while another browser
\* holds a cookie whose Session is gone from the store
C25_Witness ==
    /\ \E b \in Browsers : fs[b].next_url = GuardedUrl /\ fs[b].session_id = 0
    /\ \E b \in Browsers :
          /\ redisOn /\ fs[b].session_id # 0
          /\ fs[b].session_id \notin DOMAIN redis.sessions
          /\ login_required(redis, fs[b], 0, TRUE, GuardedUrl, -1).status = 401

\* the callback request that answers the login with the value v
AnswerTo(v) ==
    [NoReq EXCEPT !.state = v, !.code = TRUE, !.exch = "ok", !.tok = GoodToken(U1, v)]

\* C26: login() stores a fresh state and nonce with the issue time in the
\* browser session and redirects (302) to the provider with the stored
\* state and nonce; a later login() in the same browser session replaces the
\* pending values, so callback() accepts the most recently issued state and
\* rejects the one issued before.
C26_LoginIssuesAndReplaces ==
    \A b \in Browsers :
        LET v1 == nextLogin
            v2 == nextLogin + 1
            s1 == login(fs[b], v1)
            s2 == login(s1, v2)
            r1 == login_response(v1)
        IN  /\ v1 # fs[b].oauth_state /\ v1 \notin usedStates
            /\ s1.oauth_state = v1 /\ s1.oauth_nonce = v1 /\ s1.oauth_timestamp = 0
            /\ r1.status = 302
            /\ r1.params.state = s1.oauth_state /\ r1.params.nonce = s1.oauth_nonce
            /\ callback(redis, s1, AnswerTo(v1), nextSid, nextTok).reason = "ok"
            /\ s2.oauth_state = v2 /\ s2.oauth_nonce = v2 /\ s2.oauth_timestamp = 0
            /\ callback(redis, s2, AnswerTo(v1), nextSid, nextTok).reason = "csrf"
            /\ callback(redis, s2, AnswerTo(v2), nextSid, nextTok).reason = "ok"

\* a browser holds a pending state that has aged: the next login() in this
\* browser session replaces the state, the nonce and the issue time
C26_Witness ==
    \E b \in Browsers :
        /\ fs[b].oauth_state # 0 /\ fs[b].oauth_nonce # 0 /\ fs[b].oauth_timestamp > 0
        /\ login(fs[b], nextLogin).oauth_state # fs[b].oauth_state
        /\ login(fs[b], nextLogin).oauth_timestamp = 0

\* C30 as stated: after any callback that presented a wrong or missing
\* state, a callback presenting the correct state for the same browser
\* session is rejected.
C30_WrongStateBurnsFlow ==
    \A b \in Browsers, req \in CallbackReqs :
        (fs[b].oauth_state # 0 /\ req.state # fs[b].oauth_state) =>
            LET c1 == callback(redis, fs[b], req, nextSid, nextTok)
                c2 == callback(c1.R, c1.sess, AnswerTo(fs[b].oauth_state), nextSid, nextTok)
            IN  c2.reason = "csrf"

\* C30 amended: verify_csrf_token removes the stored state on every
\* invocation and succeeds only if the stored value was present and equal to
\* the candidate; after a callback without a provider error that presented
\* a wrong or missing state the correct state is rejected too, while a
\* callback with a provider error never reaches verify_csrf_token and leaves
\* the stored state in place.
C30_VerifyAlwaysPops ==
    /\ \A b \in Browsers, t \in 0..ConcLogins :
          LET v == verify_csrf_token(fs[b], t)
          IN  /\ v.sess.oauth_state = 0
              /\ v.ok <=> (fs[b].oauth_state # 0 /\ t = fs[b].oauth_state)
    /\ \A b \in Browsers, req \in CallbackReqs :
          (fs[b].oauth_state # 0 /\ req.state # fs[b].oauth_state) =>
              LET c1 == callback(redis, fs[b], req, nextSid, nextTok)
                  c2 == callback(c1.R, c1.sess, AnswerTo(fs[b].oauth_state),
                                 nextSid, nextTok)
              IN  IF req.error
                  THEN c1.status = 400 /\ c1.sess.oauth_state = fs[b].oauth_state
                  ELSE c1.reason = "csrf" /\ c1.sess.oauth_state = 0
                       /\ c2.reason = "csrf"
                       /\ Records(c2.R) = Records(redis)

\* a flow is pending and in time: a callback with a missing state burns it
C30_Witness ==
    \E b \in Browsers :
        /\ fs[b].oauth_state # 0 /\ fs[b].oauth_timestamp <= OAuthTimeout
        /\ callback(redis, fs[b], AnswerTo(fs[b].oauth_state), nextSid, nextTok).reason = "ok"
        /\ LET c1 == callback(redis, fs[b], NoReq, nextSid, nextTok)
           IN  /\ c1.reason = "csrf"
               /\ callback(c1.R, c1.sess, AnswerTo(fs[b].oauth_state),
                           nextSid, nextTok).reason = "csrf"

\* ---------------------------------------------- security_middleware.py
\* SecurityMiddleware: the hooks registered by init_app and the order in
\* which the framework runs them for one request
MAX_CONTENT_LENGTH == 16777216
SECURITY_HEADERS ==
    {"Strict-Transport-Security", "X-Content-Type-Options", "X-Frame-Options",
     "X-XSS-Protection", "Referrer-Policy", "Permissions-Policy",
     "Content-Security-Policy"}

HttpReqs ==
    [method : {"GET", "POST"}, content_type : {"", "application/json"},
     suspicious : BOOLEAN, content_length : {0, MAX_CONTENT_LENGTH + 1},
     addr : {"ip1"}, now : {0, 1}]

\* jsonify(...), status
Json(status) == [status |-> status, headers |-> {"Content-Type"}, x_request_id |-> <<>>]
NoResp == [status |-> 0, headers |-> {}, x_request_id |-> <<>>]

\* sha256(remote_addr + utcnow)[:16]
request_id(req) == <<req.addr, req.now>>

\* before_request: g.request_id is set first; a returned response ends the
\* handling of the request, NoResp lets the view run
before_request(req) ==
    [g_request_id |-> request_id(req),
     resp |-> IF req.suspicious THEN Json(400)
              ELSE IF req.method \in {"POST", "PUT", "PATCH"}
                      /\ req.content_type \notin {"application/json", "multipart/form-data"}
              THEN Json(400)
              ELSE IF req.content_length # 0 /\ req.content_length > MAX_CONTENT_LENGTH
              THEN Json(413)
              ELSE NoResp]

\* after_request that leaves a Server header in place
after_request_keep_server(resp, g_request_id) ==
    [resp EXCEPT !.headers = @ \cup SECURITY_HEADERS \cup {"X-Request-ID"},
                 !.x_request_id = g_request_id]

\* after_request: the configured headers, X-Request-ID, no Server header
after_request(resp, g_request_id) ==
    [resp EXCEPT !.headers = (@ \cup SECURITY_HEADERS \cup {"X-Request-ID"}) \ {"Server"},
                 !.x_request_id = g_request_id]

\* handle_forbidden, handle_rate_limit, and the handlers of app_secure.py
error_handler(code) == Json(code)

\* what a view does: it returns a response, which may carry headers of its
\* own, or it aborts or raises
ViewOutcomes ==
    {[kind |-> "response", resp |-> [Json(st) EXCEPT !.headers = @ \cup h]] :
        st \in {200, 302, 401}, h \in {{}, {"Server"}, {"X-Frame-Options"}}}
    \cup {[kind |-> "abort", resp |-> Json(c)] : c \in {403, 404, 429, 500}}

HttpReceive(req) ==
    /\ http.pc = "idle"
    /\ http' = [pc |-> "before", req |-> req, g_request_id |-> <<>>, resp |-> NoResp]
    /\ UNCHANGED <<redisOn, fs, redis, nextLogin, nextSid, nextTok, usedStates,
                   redeemed, loggedOut, inflight, storeUp, limiter>>

HttpBefore ==
    /\ http.pc = "before"
    /\ LET r == before_request(http.req)
       IN  http' = [http EXCEPT !.g_request_id = r.g_request_id, !.resp = r.resp,
                                !.pc = IF r.resp = NoResp THEN "view" ELSE "after"]
    /\ UNCHANGED <<redisOn, fs, redis, nextLogin, nextSid, nextTok, usedStates,
                   redeemed, loggedOut, inflight, storeUp, limiter>>

HttpView(o) ==
    /\ http.pc = "view"
    /\ http' = [http EXCEPT !.resp = o.resp,
                            !.pc = IF o.kind = "abort" THEN "error" ELSE "after"]
    /\ UNCHANGED <<redisOn, fs, redis, nextLogin, nextSid, nextTok, usedStates,
                   redeemed, loggedOut, inflight, storeUp, limiter>>

HttpError ==
    /\ http.pc = "error"
    /\ http' = [http EXCEPT !.resp = error_handler(http.resp.status), !.pc = "after"]
    /\ UNCHANGED <<redisOn, fs, redis, nextLogin, nextSid, nextTok, usedStates,
                   redeemed, loggedOut, inflight, storeUp, limiter>>

HttpAfter ==
    /\ http.pc = "after"
    /\ http' = [http EXCEPT !.resp = after_request(http.resp, http.g_request_id),
                            !.pc = "sent"]
    /\ UNCHANGED <<redisOn, fs, redis, nextLogin, nextSid, nextTok, usedStates,
                   redeemed, loggedOut, inflight, storeUp, limiter>>

HttpSend ==
    /\ http.pc = "sent"
    /\ http' = NoHttp
    /\ UNCHANGED <<redisOn, fs, redis, nextLogin, nextSid, nextTok, usedStates,
                   redeemed, loggedOut, inflight, storeUp, limiter>>

NextHttp ==
    \/ \E req \in HttpReqs : HttpReceive(req)
    \/ HttpBefore
    \/ \E o \in ViewOutcomes : HttpView(o)
    \/ HttpError
    \/ HttpAfter
    \/ HttpSend

SpecHttp == Init /\ [][NextHttp]_vars

\* C27: every response that leaves the application, the middleware's own
\* 400 and 413 and the responses of the 403 and 429 handlers included,
\* carries every configured security header and the X-Request-ID of its
\* request, and no Server header.
C27_EveryResponseHardened ==
    http.pc = "sent" =>
        /\ SECURITY_HEADERS \subseteq http.resp.headers
        /\ "X-Request-ID" \in http.resp.headers
        /\ http.resp.x_request_id = request_id(http.req)
        /\ "Server" \notin http.resp.headers

\* a request that the middleware itself rejected as too large is answered
C27_Witness ==
    /\ http.pc = "sent"
    /\ http.resp.status = 413
    /\ http.req.content_length > MAX_CONTENT_LENGTH

\* C28: a check_rate_limit call that finds an existing counter increments it
\* and leaves the time at which the counter expires unchanged.
C28_ExpiryFixedAtCreation ==
    \A key \in DOMAIN limiter.counters, limit \in LimitStrings :
        (limiter.redis /\ storeUp /\ LimitsOf(limiter, key, limit) = limit) =>
            LET c == check_rate_limit(limiter, storeUp, key, limit)
            IN  /\ Count(c.L, key) = Count(limiter, key) + 1
                /\ c.L.counters[key].ttl = limiter.counters[key].ttl

\* ------------------------------------------------------------ C31 .. C39
\* C31: a successful validate_api_token sets the TTL of the API token to the
\* full session lifetime and changes nothing else; a validation that returns
\* absent, because the token or its Session is missing, changes no TTL and
\* creates no record.
C31_ApiTokenSlidingExpiry ==
    \A t \in Tokens :
        LET v == validate_api_token(redis, t)
        IN  IF v.user # NoEmail
            THEN /\ t \in DOMAIN redis.api_token
                 /\ v.R = [redis EXCEPT !.api_token[t].ttl = SessionLifetime]
            ELSE v.R = redis

\* an API token has used up part of its lifetime and its Session is alive,
\* while a bearer token that was never issued is absent
C31_Witness ==
    /\ \E t \in DOMAIN redis.api_token :
          /\ redis.api_token[t].ttl < SessionLifetime
          /\ validate_api_token(redis, t).user # NoEmail
    /\ validate_api_token(redis, nextTok).user = NoEmail

\* C32: when callback() answers with the redirect that carries the bridge
\* token, the Session record, its entry in the user's index and the bridge
\* token record are in the store already, so an exchange-token request that
\* follows at once, from any caller, finds both and answers 200 for the
\* user; without a store the same holds for the browser that logged in.
C32_WritesPrecedeRedirect ==
    \A b \in Browsers, req \in CallbackReqs :
        LET c == callback(redis, fs[b], req, nextSid, nextTok)
        IN  c.reason = "ok" =>
                /\ c.status = 302
                /\ redisOn =>
                      /\ nextSid \in DOMAIN c.R.sessions
                      /\ nextSid \in smembers(c.R, req.tok.email)
                      /\ nextTok \in DOMAIN c.R.auth_token
                      /\ c.R.auth_token[nextTok].session_id = nextSid
                      /\ \A b2 \in Browsers \cup {NoBrowser} :
                            LET x == exchange_token(
                                         c.R, IF b2 = b THEN c.sess ELSE SessionOf(b2),
                                         nextTok, nextTok + 1)
                            IN  x.status = 200 /\ x.email = req.tok.email
                /\ ~redisOn =>
                      LET x == exchange_token(c.R, c.sess, nextTok, nextTok + 1)
                      IN  x.status = 200 /\ x.email = req.tok.email

\* a callback is about to succeed against the store
C32_Witness ==
    /\ redisOn
    /\ \E b \in Browsers, req \in CallbackReqs :
          callback(redis, fs[b], req, nextSid, nextTok).reason = "ok"

\* C33: a bridge token that has not been redeemed is not a credential for
\* GET /auth/status: presented as the Bearer token by a caller without a
\* cookie session, it does not yield authenticated: true.
C33_BridgeTokenOnlyForExchange ==
    \A t \in DOMAIN redis.auth_token :
        auth_status(redis, EmptySession, t).user = NoEmail

\* the number of code exchanges one callback() performs
callback_posts(s, req) ==
    IF req.error \/ ~verify_csrf_token(s, req.state).ok
       \/ callback_timed_out(s.oauth_timestamp) \/ ~req.code
    THEN 0 ELSE exchange_code(req).posts

\* C34: every callback() ends with a response, either the redirect of an
\* established Session or a rejection (400, 403, 500) that has created no
\* Session; a failed code exchange (non-2xx, network error, timeout) is a
\* rejection with status 500, and the exchange is performed at most once.
C34_CallbackTerminates ==
    \A b \in Browsers, req \in CallbackReqs :
        LET c == callback(redis, fs[b], req, nextSid, nextTok)
        IN  /\ c.status \in {302, 400, 403, 500}
            /\ (c.status = 302) = (c.reason = "ok")
            /\ c.reason = "ok" =>
                  /\ c.sess.session_id = nextSid
                  /\ redisOn => nextSid \in DOMAIN c.R.sessions
                  /\ ~redisOn => c.sess.user_data = req.tok.email
            /\ c.reason # "ok" =>
                  /\ Records(c.R) = Records(redis)
                  /\ Fallback(c.sess) = Fallback(fs[b])
            /\ (callback_posts(fs[b], req) > 0 /\ req.exch = "fail") =>
                  c.status = 500 /\ c.reason = "exchange_failed"
            /\ callback_posts(fs[b], req) <= 1

\* a callback that passes the CSRF and time checks meets a failing code
\* exchange, and another one would succeed
C34_Witness ==
    \E b \in Browsers, req1, req2 \in CallbackReqs :
        /\ req1.exch = "fail"
        /\ callback(redis, fs[b], req1, nextSid, nextTok).reason = "exchange_failed"
        /\ callback_posts(fs[b], req1) = 1
        /\ callback(redis, fs[b], req2, nextSid, nextTok).reason = "ok"

\* --------------------------------------- requests interleaved at the store
\* exchange_token up to and including GET auth_token:<temp_token>
exchange_token_read(R, temp_token) ==
    IF temp_token = 0 THEN [status |-> 400, session_id |-> 0]
    ELSE IF temp_token \notin DOMAIN R.auth_token THEN [status |-> 401, session_id |-> 0]
    ELSE [status |-> 0, session_id |-> R.auth_token[temp_token].session_id]

\* the rest of exchange_token: GET session:<id>, SETEX api_token:<new>,
\* DELETE auth_token:<temp_token>
exchange_token_write(R, session_id, temp_token, api_token) ==
    IF session_id \notin DOMAIN R.sessions THEN [R |-> R, status |-> 401]
    ELSE [R |-> [R EXCEPT
                    !.api_token = Put(@, api_token,
                        [session_id |-> session_id, email |-> R.sessions[session_id].email,
                         ttl |-> SessionLifetime]),
                    !.auth_token = Del(@, {temp_token})],
          status |-> 200]

\* get_user_session up to and including GET session:<id>
get_user_session_read(R, s) ==
    IF s.session_id = 0 THEN [sess |-> s, found |-> FALSE, user |-> NoEmail]
    ELSE IF s.session_id \notin DOMAIN R.sessions
    THEN [sess |-> EmptySession, found |-> FALSE, user |-> NoEmail]
    ELSE [sess |-> s, found |-> TRUE, user |-> R.sessions[s.session_id].email]

\* SETEX session:<id> with the data read before and the full lifetime
get_user_session_write(R, session_id, user) ==
    [R EXCEPT !.sessions = Put(@, session_id, [email |-> user, ttl |-> SessionLifetime])]

ExchangeRead(r, temp_token) ==
    /\ inflight[r].pc = "idle"
    /\ LET x == exchange_token_read(redis, temp_token)
       IN  inflight' = [inflight EXCEPT ![r] =
               [Idle EXCEPT !.pc = IF x.status = 0 THEN "exchange" ELSE "done",
                            !.token = temp_token, !.session_id = x.session_id,
                            !.status = x.status]]
    /\ UNCHANGED <<http, storeUp, limiter, redisOn, fs, redis, nextLogin, nextSid, nextTok,
                   usedStates, redeemed, loggedOut>>

ExchangeWrite(r) ==
    /\ inflight[r].pc = "exchange"
    /\ LET x == exchange_token_write(redis, inflight[r].session_id, inflight[r].token, nextTok)
       IN  /\ redis' = x.R
           /\ nextTok' = IF x.status = 200 THEN nextTok + 1 ELSE nextTok
           /\ redeemed' = IF x.status = 200 THEN redeemed \cup {inflight[r].token}
                           ELSE redeemed
           /\ inflight' = [inflight EXCEPT ![r].pc = "done", ![r].status = x.status]
    /\ UNCHANGED <<http, storeUp, limiter, redisOn, fs, nextLogin, nextSid, usedStates, loggedOut>>

\* a request of browser b that resolves its cookie session (GET /auth/status
\* without a bearer token, or a guarded endpoint): the read
GetRead(r, b) ==
    /\ inflight[r].pc = "idle"
    /\ LET g == get_user_session_read(redis, fs[b])
       IN  /\ fs' = [fs EXCEPT ![b] = g.sess]
           /\ inflight' = [inflight EXCEPT ![r] =
                  [Idle EXCEPT !.pc = IF g.found THEN "get_session" ELSE "done",
                               !.b = b, !.session_id = fs[b].session_id,
                               !.user = g.user, !.status = 200]]
    /\ UNCHANGED <<http, storeUp, limiter, redisOn, redis, nextLogin, nextSid, nextTok,
                   usedStates, redeemed, loggedOut>>

\* ... and the write that refreshes the TTL
GetWrite(r) ==
    /\ inflight[r].pc = "get_session"
    /\ redis' = get_user_session_write(redis, inflight[r].session_id, inflight[r].user)
    /\ inflight' = [inflight EXCEPT ![r].pc = "done"]
    /\ UNCHANGED <<http, storeUp, limiter, redisOn, fs, nextLogin, nextSid, nextTok,
                   usedStates, redeemed, loggedOut>>

\* the response of a finished request is sent
Respond(r) ==
    /\ inflight[r].pc = "done"
    /\ inflight' = [inflight EXCEPT ![r] = Idle]
    /\ UNCHANGED <<http, storeUp, limiter, redisOn, fs, redis, nextLogin, nextSid, nextTok,
                   usedStates, redeemed, loggedOut>>

NextRace ==
    \/ \E b \in Browsers : Login(b)
    \/ \E b \in Browsers, req \in ConcReqs : Callback(b, req)
    \/ \E r \in Reqs, t \in 1..MaxTokens : ExchangeRead(r, t)
    \/ \E r \in Reqs : ExchangeWrite(r)
    \/ \E r \in Reqs, b \in Browsers : GetRead(r, b)
    \/ \E r \in Reqs : GetWrite(r)
    \/ \E r \in Reqs : Respond(r)
    \/ \E b \in Browsers : Logout(b)

SpecRace == InitConc /\ [][NextRace]_vars

\* C35: of two exchange-token requests that carry the same bridge token and
\* overlap in time, at most one is answered 200 with an API token.
C35_OneRedemptionUnderRace ==
    \A r1, r2 \in Reqs :
        (/\ r1 # r2
         /\ inflight[r1].pc = "done" /\ inflight[r2].pc = "done"
         /\ inflight[r1].token # 0 /\ inflight[r1].token = inflight[r2].token)
        => ~(inflight[r1].status = 200 /\ inflight[r2].status = 200)

\* C36: a Session deleted by logout stays deleted, whatever requests were
\* resolving it at the time: no cookie and no API token resolves its id.
C36_DestroyedSessionStaysGone ==
    \A sid \in loggedOut :
        /\ sid \notin DOMAIN redis.sessions
        /\ get_user_session(redis, [EmptySession EXCEPT !.session_id = sid]).user = NoEmail
        /\ \A t \in DOMAIN redis.api_token :
              redis.api_token[t].session_id = sid =>
                  validate_api_token(redis, t).user = NoEmail

\* the pending flow of a browser session: state, issue time and nonce
Pending(s) == <<s.oauth_state, s.oauth_timestamp, s.oauth_nonce>>

\* the callback the identity provider sends back for login number v
ValidCallback(v) ==
    [NoReq EXCEPT !.state = v, !.code = TRUE, !.exch = "ok", !.tok = GoodToken(U1, v)]

\* C37: a status check or a guarded request that follows login() in the same
\* browser leaves the pending state, issue time and nonce in the browser
\* session, and the valid callback that follows establishes a Session.
C37_ChecksKeepPendingFlow ==
    \A b \in Browsers, bearer \in Tokens, is_json \in BOOLEAN :
        LET s0 == login(fs[b], nextLogin)
            st == auth_status(redis, s0, bearer)
            g  == login_required(redis, s0, bearer, is_json, GuardedUrl, -1)
        IN  /\ Pending(st.sess) = Pending(s0)
            /\ Pending(g.sess) = Pending(s0)
            /\ callback(st.R, st.sess, ValidCallback(nextLogin), nextSid, nextTok).reason = "ok"
            /\ callback(g.R, g.sess, ValidCallback(nextLogin), nextSid, nextTok).reason = "ok"

\* C38: a browser session that holds an oauth_state holds the issue time and
\* the nonce of the same login() too; so for every callback that passes the
\* CSRF check the ten-minute check finds a timestamp, and it rejects the
\* callback when more than ten minutes have passed.
C38_StateComesWithTimestampAndNonce ==
    \A b \in Browsers :
        /\ fs[b].oauth_state # 0 =>
              /\ fs[b].oauth_timestamp # -1
              /\ fs[b].oauth_nonce = fs[b].oauth_state
        /\ \A req \in CallbackReqs :
              (~req.error /\ verify_csrf_token(fs[b], req.state).ok) =>
                  LET c == callback(redis, fs[b], req, nextSid, nextTok)
                  IN  /\ fs[b].oauth_timestamp # -1
                      /\ (c.reason = "timeout") = (fs[b].oauth_timestamp > OAuthTimeout)

\* a pending flow older than ten minutes, whose callback passes the CSRF check
C38_Witness ==
    \E b \in Browsers, req \in CallbackReqs :
        /\ ~req.error
        /\ verify_csrf_token(fs[b], req.state).ok
        /\ fs[b].oauth_timestamp > OAuthTimeout
        /\ callback(redis, fs[b], req, nextSid, nextTok).reason = "timeout"

\* C39: a callback with a provider error parameter is answered 400 before
\* the CSRF check: it leaves the store and the browser session, with its
\* state, issue time and nonce, as they were, so every later callback has the
\* outcome it would have had without it, and the one with the correct state,
\* code and identity token still establishes the Session.
C39_ErrorCallbackKeepsFlow ==
    \A b \in Browsers, req \in CallbackReqs :
        req.error =>
            LET c == callback(redis, fs[b], req, nextSid, nextTok)
            IN  /\ c.status = 400
                /\ c.R = redis
                /\ c.sess = fs[b]
                /\ Pending(c.sess) = Pending(fs[b])
                /\ \A req2 \in CallbackReqs :
                      callback(c.R, c.sess, req2, nextSid, nextTok)
                          = callback(redis, fs[b], req2, nextSid, nextTok)

\* a pending flow gets an error callback that names its state, and the
\* valid callback after it succeeds
C39_Witness ==
    \E b \in Browsers, req \in CallbackReqs :
        /\ req.error
        /\ fs[b].oauth_state # 0
        /\ req.state = fs[b].oauth_state
        /\ LET c == callback(redis, fs[b], req, nextSid, nextTok)
           IN  callback(c.R, c.sess, ValidCallback(fs[b].oauth_state),
                        nextSid, nextTok).reason = "ok"

====
